---- MODULE Spec2Model ----
(***************************************************************************)
(* Validation-and-scoring pipeline of meta-ops-validator:                  *)
(*   rules.engine.evaluate, validate_xsd, validate_schematron,             *)
(*   calculate_nielsen_score, calculate_retailer_score,                    *)
(*   calculate_multi_retailer_score.                                       *)
(*                                                                         *)
(* Every entry point is a function of its input files.  The state holds    *)
(* the input files and the outcome of the last call.  A Python call is     *)
(* modelled by a record [exc, val]: exc is "none" when the call returned   *)
(* val, otherwise the class of the exception that left it.                 *)
(*                                                                         *)
(* Scores are numbers with one decimal in the program (round(x, 1)); the   *)
(* model holds them in tenths of a point, so 35.0 is 350.                  *)
(***************************************************************************)
EXTENDS Integers, Sequences, FiniteSets, TLC

VARIABLES onix, rulesFile, xsdFile, schFile, result,
          codelistsDir, manager, threads, served,
          states, tasks, clock

vars == <<onix, rulesFile, xsdFile, schFile, result, codelistsDir, manager, threads, served,
          states, tasks, clock>>

\* ---- bounds --------------------------------------------------------------
MaxProducts == 2
MaxRules == 2
MaxRequested == 3
MaxDiagnostics == 1
MaxSeeds == 2
MaxCodeLists == 2
MaxThreads == 2
MaxLoads == 2

\* ---- Python helpers -------------------------------------------------------
Ret(v) == [exc |-> "none", val |-> v]

Raise(e) == [exc |-> e, val |-> <<>>]

\* isinstance(exc, cls) for the exception classes that occur in the pipeline
IsInstance(exc, cls) == exc # "none" /\ (cls = "Exception" \/ exc = cls)

Range(s) == {s[i] : i \in 1..Len(s)}

\* a local variable: Op applied to value, the value being computed once
Bind(value, Op(_)) == CHOOSE out \in {Op(v) : v \in {value}} : TRUE

RECURSIVE SumSeq(_)
SumSeq(s) == IF s = <<>> THEN 0 ELSE s[1] + SumSeq(Tail(s))

RECURSIVE MinSeq(_)
MinSeq(s) == IF Len(s) = 1 THEN s[1]
             ELSE LET m == MinSeq(Tail(s)) IN IF s[1] <= m THEN s[1] ELSE m

RECURSIVE MaxSeq(_)
MaxSeq(s) == IF Len(s) = 1 THEN s[1]
             ELSE LET m == MaxSeq(Tail(s)) IN IF s[1] >= m THEN s[1] ELSE m

\* round(num / den, 1), in tenths; Python rounds an exact tie to the even digit
Round1(num, den) ==
    LET q == (10 * num) \div den
        r == (10 * num) % den
    IN IF 2 * r > den THEN q + 1
       ELSE IF 2 * r < den THEN q
       ELSE IF q % 2 = 0 THEN q ELSE q + 1

\* ---- completeness taxonomy ------------------------------------------------
\* keys of NIELSEN_WEIGHTS in insertion order
NIELSEN_KEYS == <<"isbn", "title", "contributors", "description", "subject_codes",
                  "product_form", "price", "publication_date", "publisher",
                  "imprint", "series", "cover_image">>

Fields == Range(NIELSEN_KEYS)

NIELSEN_WEIGHTS ==
    [f \in Fields |->
        CASE f = "isbn" -> 20
          [] f = "title" -> 15
          [] f = "contributors" -> 12
          [] f = "description" -> 10
          [] f = "subject_codes" -> 8
          [] f = "product_form" -> 8
          [] f = "price" -> 7
          [] f = "publication_date" -> 5
          [] f = "publisher" -> 5
          [] f = "imprint" -> 4
          [] f = "series" -> 3
          [] f = "cover_image" -> 3]

\* sum(NIELSEN_WEIGHTS.values())
total_possible == SumSeq([i \in 1..Len(NIELSEN_KEYS) |-> NIELSEN_WEIGHTS[NIELSEN_KEYS[i]]])

\* ---- string hashing -------------------------------------------------------
\* The hash of a str depends on the hash seed of the interpreter process, which
\* CPython draws at start-up; a set of field names iterates in hash order.
Seeds == 1..MaxSeeds

\* the rank of a field name among the twelve under a seed: multiplication by
\* the seed modulo 13 permutes 1..12
StrHash(seed, f) ==
    ((CHOOSE i \in 1..Len(NIELSEN_KEYS) : NIELSEN_KEYS[i] = f) * seed) % 13

\* list(a_set): the members in the iteration order of the process
ListOfSet(seed, members) ==
    LET by_hash == [h \in 1..Len(NIELSEN_KEYS) |-> CHOOSE f \in Fields : StrHash(seed, f) = h]
    IN SelectSeq(by_hash, LAMBDA f : f \in members)

\* ---- documents ------------------------------------------------------------
\* What the element a field predicate selects looks like in one product:
\*   "absent"     the XPath selects no node
\*   "notext"     a node is selected and its .text is None (<TitleText/>)
\*   "poor"       a node with text that fails the quality gate ("0" for price)
\*   "nonnumeric" PriceAmount whose text float() rejects
\*   "good"       a node whose text passes the gate
Contents == {"absent", "notext", "poor", "nonnumeric", "good"}

Complete == [f \in Fields |-> "good"]

Blank == [f \in Fields |-> "absent"]

OnlyIdTitle == [f \in Fields |-> IF f \in {"isbn", "title"} THEN "good" ELSE "absent"]

ProductShapes ==
    { Complete, Blank, OnlyIdTitle,
      [Complete EXCEPT !["isbn"] = "absent"],
      [Complete EXCEPT !["price"] = "poor"],
      [Complete EXCEPT !["publisher"] = "absent", !["series"] = "absent"],
      [Complete EXCEPT !["title"] = "notext"],
      [OnlyIdTitle EXCEPT !["price"] = "nonnumeric"],
      [Complete EXCEPT !["publisher"] = "notext"] }

RECURSIVE SeqsUpTo(_, _)
SeqsUpTo(S, n) ==
    IF n = 0 THEN {<<>>}
    ELSE LET shorter == SeqsUpTo(S, n - 1)
         IN shorter \cup {Append(s, x) : s \in {t \in shorter : Len(t) = n - 1}, x \in S}

Namespaces == {"reference", "short", "none"}

\* A document file: wellformed is whether etree.parse accepts it, ns the
\* namespace of its root element ("none": no ONIX namespace), nsmap the ONIX
\* namespaces among the values of root.nsmap, products its Product nodes in
\* document order
Garbage == [wellformed |-> FALSE, ns |-> "none", nsmap |-> {}, products |-> <<>>]

DefaultDocument ==
    [wellformed |-> TRUE, ns |-> "reference", nsmap |-> {"reference"}, products |-> <<Complete>>]

\* documents of up to MaxProducts products
ScoredDocuments ==
    [wellformed : {TRUE}, ns : {"reference"}, nsmap : {{"reference"}},
     products : SeqsUpTo(ProductShapes, MaxProducts)]
    \cup {Garbage}

\* one document of each namespace variant: the namespace of the root element
\* is one of those its nsmap declares
VariantDocuments ==
    {d \in [wellformed : {TRUE}, ns : Namespaces, nsmap : SUBSET {"reference", "short"},
            products : {<<Complete>>}] : d.ns # "none" => d.ns \in d.nsmap}
    \cup {Garbage}

\* ---- field predicates (nielsen_scoring._score_*) ---------------------------
\* `nodes and <gate on nodes[0].text>`: 0 without a node, AttributeError on
\* None.strip(), ValueError from float(), else the weight or 0
ScoreField(product, f) ==
    LET c == product[f]
    IN CASE c = "absent" -> Ret(0)
         [] c = "notext" -> Raise("AttributeError")
         [] c = "nonnumeric" -> IF f = "price" THEN Raise("ValueError") ELSE Ret(NIELSEN_WEIGHTS[f])
         [] c = "poor" -> Ret(0)
         [] c = "good" -> Ret(NIELSEN_WEIGHTS[f])

\* ---- calculate_nielsen_score ----------------------------------------------
\* detect_onix_namespace: any parse failure is swallowed and gives (None, False)
\* the root tag is looked at first, then the declared namespaces
detect_onix_namespace(doc) ==
    IF ~doc.wellformed THEN [namespace_uri |-> "none", is_real_onix |-> FALSE]
    ELSE IF doc.ns = "reference" THEN [namespace_uri |-> "reference", is_real_onix |-> TRUE]
    ELSE IF doc.ns = "short" THEN [namespace_uri |-> "short", is_real_onix |-> TRUE]
    ELSE IF "reference" \in doc.nsmap THEN [namespace_uri |-> "reference", is_real_onix |-> TRUE]
    ELSE IF "short" \in doc.nsmap THEN [namespace_uri |-> "short", is_real_onix |-> TRUE]
    ELSE [namespace_uri |-> "none", is_real_onix |-> FALSE]

\* ---- artifact selection ---------------------------------------------------
\* paths below the project root
get_production_schema_path(namespace_uri) ==
    IF namespace_uri = "reference" THEN "data/editeur/ONIX_BookProduct_3.0_reference.xsd"
    ELSE IF namespace_uri = "short" THEN "data/editeur/ONIX_BookProduct_3.0_short.xsd"
    ELSE "data/samples/onix_samples/onix.xsd"

\* production rules for the reference namespace only
get_production_schematron_path_reference_only(namespace_uri) ==
    IF namespace_uri = "reference" THEN "data/editeur/schematron/onix-production-rules.sch"
    ELSE "data/samples/onix_samples/rules.sch"

get_production_schematron_path(namespace_uri) ==
    IF namespace_uri \in {"reference", "short"}
    THEN "data/editeur/schematron/onix-production-rules.sch"
    ELSE "data/samples/onix_samples/rules.sch"

get_production_rules_path(namespace_uri) ==
    IF namespace_uri \in {"reference", "short"} THEN "diagnostic/rules.yml"
    ELSE "diagnostic/rules.sample.yml"

\* what validate_xsd, validate_schematron and evaluate select when they are
\* called without an artifact path
SelectArtifacts(doc) ==
    LET detected == detect_onix_namespace(doc)
    IN [namespace_uri |-> detected.namespace_uri,
        is_real_onix |-> detected.is_real_onix,
        xsd_path |-> get_production_schema_path(detected.namespace_uri),
        sch_path |-> get_production_schematron_path(detected.namespace_uri),
        rules_path |-> get_production_rules_path(detected.namespace_uri)]

\* One pass of the product loop body: the twelve checks in source order, from
\* check i on.  acc is [total_score, breakdown, missing_elements]; a predicate
\* that raises ends the pass with its exception.
RECURSIVE ScoreChecks(_, _, _)
ScoreChecks(product, i, acc) ==
    IF i > Len(NIELSEN_KEYS) THEN Ret(acc)
    ELSE LET f == NIELSEN_KEYS[i]
             s == ScoreField(product, f)
         IN IF s.exc # "none" THEN Raise(s.exc)
            ELSE ScoreChecks(product, i + 1,
                    [total_score |-> acc.total_score + s.val,
                     breakdown |-> [acc.breakdown EXCEPT ![f] = s.val],
                     missing_elements |-> IF s.val = 0
                                          THEN Append(acc.missing_elements, f)
                                          ELSE acc.missing_elements])

ScoreProduct(product, product_index) ==
    LET r == ScoreChecks(product, 1,
                [total_score |-> 0, breakdown |-> [f \in Fields |-> 0],
                 missing_elements |-> <<>>])
    IN IF r.exc # "none" THEN Raise(r.exc)
       ELSE Ret([product_index |-> product_index,
                 overall_score |-> Round1(r.val.total_score * 100, total_possible),
                 total_score |-> r.val.total_score,
                 breakdown |-> r.val.breakdown,
                 missing_critical |-> r.val.missing_elements])

\* the `for product_index, product in enumerate(products)` loop
RECURSIVE ScoreAllProducts(_, _, _)
ScoreAllProducts(products, i, all_products_scores) ==
    IF i > Len(products) THEN Ret(all_products_scores)
    ELSE LET r == ScoreProduct(products[i], i - 1)
         IN IF r.exc # "none" THEN Raise(r.exc)
            ELSE ScoreAllProducts(products, i + 1, Append(all_products_scores, r.val))

\* score is sum/n of one-decimal scores held in tenths: score >= t  <=>  sum >= 10*t*n
_estimate_sales_impact(sum, n) ==
    IF sum >= 900 * n THEN "Excellent"
    ELSE IF sum >= 750 * n THEN "Good"
    ELSE IF sum >= 600 * n THEN "Fair"
    ELSE IF sum >= 400 * n THEN "Poor"
    ELSE "Critical"

_get_scoring_recommendation(sum, n) ==
    IF sum >= 850 * n THEN "Excellent"
    ELSE IF sum >= 700 * n THEN "Good"
    ELSE IF sum >= 500 * n THEN "Moderate"
    ELSE "Significant"

\* the aggregate branch, lines 171-194; missing_critical is list(all_missing),
\* a list built from a set
NielsenAggregate(all_products_scores, seed) ==
    LET n == Len(all_products_scores)
        scores == [i \in 1..n |-> all_products_scores[i].overall_score]
        all_missing == UNION {Range(all_products_scores[i].missing_critical) : i \in 1..n}
    IN [overall_score |-> Round1(SumSeq(scores), 10 * n),
        min_score |-> MinSeq(scores),
        max_score |-> MaxSeq(scores),
        products_count |-> n,
        total_possible |-> total_possible,
        products_scores |-> all_products_scores,
        missing_critical |-> ListOfSet(seed, all_missing),
        sales_impact_estimate |-> _estimate_sales_impact(SumSeq(scores), n),
        recommendation |-> _get_scoring_recommendation(SumSeq(scores), n)]

\* the body of the try block, lines 46-204
NielsenTry(doc, seed) ==
    IF ~doc.wellformed THEN Raise("XMLSyntaxError")
    ELSE IF doc.products = <<>>
    THEN Ret([overall_score |-> 0,
              total_possible |-> total_possible,
              message |-> "No products found in ONIX file",
              breakdown |-> <<>>,
              missing_critical |-> NIELSEN_KEYS,
              sales_impact_estimate |-> "Unable to calculate - no products"])
    ELSE LET r == ScoreAllProducts(doc.products, 1, <<>>)
         IN IF r.exc # "none" THEN Raise(r.exc) ELSE Ret(NielsenAggregate(r.val, seed))

\* `except Exception as e` of calculate_nielsen_score, line 206
NielsenCatches(exc) == IsInstance(exc, "Exception")

calculate_nielsen_score(doc, seed) ==
    LET r == NielsenTry(doc, seed)
    IN IF NielsenCatches(r.exc)
       THEN Ret([overall_score |-> 0,
                 total_possible |-> total_possible,
                 error |-> r.exc,
                 breakdown |-> <<>>,
                 missing_critical |-> NIELSEN_KEYS,
                 sales_impact_estimate |-> "Unable to calculate due to error"])
       ELSE r

\* ---- retailer profiles ----------------------------------------------------
\* keys of RETAILER_PROFILES in insertion order
RETAILER_KEYS == <<"amazon", "ingram", "apple", "kobo", "barnes_noble", "overdrive">>

\* a weight table: the keys in insertion order, and the weight of each key
Table(keys, values) ==
    [keys |-> keys, weight |-> [f \in Range(keys) |-> values[CHOOSE i \in 1..Len(keys) : keys[i] = f]]]

RETAILER_PROFILES ==
    [r \in Range(RETAILER_KEYS) |->
      CASE r = "amazon" ->
            [name |-> "Amazon KDP/Author Central",
             critical_fields |-> <<"isbn", "title", "contributors", "description", "product_form", "price">>,
             recommended_fields |-> <<"subject_codes", "series", "cover_image", "publication_date">>,
             weights |-> Table(<<"isbn", "title", "contributors", "description",
                                 "product_form", "price", "subject_codes", "series">>,
                               <<25, 20, 15, 15, 10, 10, 3, 2>>),
             discovery_boost |-> <<"subject_codes", "series", "description">>]
        [] r = "ingram" ->
            [name |-> "IngramSpark",
             critical_fields |-> <<"isbn", "title", "contributors", "product_form", "price", "publisher">>,
             recommended_fields |-> <<"description", "subject_codes", "publication_date", "imprint">>,
             weights |-> Table(<<"isbn", "title", "contributors", "product_form",
                                 "price", "publisher", "description", "subject_codes">>,
                               <<20, 18, 15, 12, 12, 10, 8, 5>>),
             discovery_boost |-> <<"subject_codes", "publisher", "imprint">>]
        [] r = "apple" ->
            [name |-> "Apple Books",
             critical_fields |-> <<"isbn", "title", "contributors", "description", "product_form">>,
             recommended_fields |-> <<"subject_codes", "series", "cover_image", "price">>,
             weights |-> Table(<<"isbn", "title", "contributors", "description",
                                 "product_form", "subject_codes", "series", "cover_image">>,
                               <<22, 20, 18, 15, 12, 8, 3, 2>>),
             discovery_boost |-> <<"description", "subject_codes", "series">>]
        [] r = "kobo" ->
            [name |-> "Kobo",
             critical_fields |-> <<"isbn", "title", "contributors", "description", "product_form", "price">>,
             recommended_fields |-> <<"subject_codes", "series", "publication_date">>,
             weights |-> Table(<<"isbn", "title", "contributors", "description",
                                 "product_form", "price", "subject_codes", "series">>,
                               <<20, 18, 16, 14, 12, 10, 6, 4>>),
             discovery_boost |-> <<"description", "subject_codes", "series">>]
        [] r = "barnes_noble" ->
            [name |-> "Barnes & Noble Press",
             critical_fields |-> <<"isbn", "title", "contributors", "description", "product_form", "price">>,
             recommended_fields |-> <<"subject_codes", "publisher", "series", "cover_image">>,
             weights |-> Table(<<"isbn", "title", "contributors", "description",
                                 "product_form", "price", "subject_codes", "publisher">>,
                               <<22, 18, 15, 15, 12, 8, 6, 4>>),
             discovery_boost |-> <<"description", "subject_codes", "publisher">>]
        [] r = "overdrive" ->
            [name |-> "OverDrive",
             critical_fields |-> <<"isbn", "title", "contributors", "description", "product_form", "publisher">>,
             recommended_fields |-> <<"subject_codes", "series", "publication_date", "imprint">>,
             weights |-> Table(<<"isbn", "title", "contributors", "description",
                                 "product_form", "publisher", "subject_codes", "series">>,
                               <<18, 16, 14, 12, 12, 12, 8, 8>>),
             discovery_boost |-> <<"subject_codes", "series", "publisher">>]]

\* a retailer key that is not a profile
UnknownRetailer == "walmart"

RetailerNames == Range(RETAILER_KEYS) \cup {UnknownRetailer}

\* ---- calculate_retailer_score ---------------------------------------------
\* binary scoring on top of the shared field predicates
_score_field_for_retailer(product, field) ==
    IF field \in Fields
    THEN LET s == ScoreField(product, field)
         IN IF s.exc # "none" THEN Raise(s.exc)
            ELSE Ret(IF s.val > 0 THEN 100 ELSE 0)
    ELSE Ret(0)

\* the `for field, weight in profile['weights'].items()` loop, from item i on;
\* acc is [field_scores, total_score, missing_critical, missing_recommended].
\* weighted_score is score * (weight / 100), in points.
RECURSIVE ScoreWeights(_, _, _, _)
ScoreWeights(product, profile, i, acc) ==
    IF i > Len(profile.weights.keys) THEN Ret(acc)
    ELSE LET field == profile.weights.keys[i]
             weight == profile.weights.weight[field]
             s == _score_field_for_retailer(product, field)
         IN IF s.exc # "none" THEN Raise(s.exc)
            ELSE LET entry == [score |-> s.val, weight |-> weight,
                               weighted_score |-> IF s.val > 0 THEN (s.val * weight) \div 100 ELSE 0]
                     missing == s.val <= 0
                     critical == field \in Range(profile.critical_fields)
                     recommended == field \in Range(profile.recommended_fields)
                 IN ScoreWeights(product, profile, i + 1,
                      [field_scores |-> [acc.field_scores EXCEPT ![field] = entry],
                       total_score |-> acc.total_score + (IF missing THEN 0 ELSE entry.weighted_score),
                       missing_critical |-> IF missing /\ critical
                                            THEN Append(acc.missing_critical, field)
                                            ELSE acc.missing_critical,
                       missing_recommended |-> IF missing /\ ~critical /\ recommended
                                               THEN Append(acc.missing_recommended, field)
                                               ELSE acc.missing_recommended])

_calculate_discovery_score(field_scores, scored, discovery_fields) ==
    LET used == SelectSeq(discovery_fields, LAMBDA f : f \in scored)
        discovery_total == SumSeq([i \in 1..Len(used) |-> field_scores[used[i]].weighted_score])
        discovery_possible == SumSeq([i \in 1..Len(used) |-> field_scores[used[i]].weight])
    IN IF discovery_possible > 0 THEN Round1(discovery_total * 100, discovery_possible) ELSE 0

\* critical_count <= total_critical * 0.3  <=>  10 * critical_count <= 3 * total_critical
_assess_retailer_risk(missing_critical, profile) ==
    LET critical_count == Len(missing_critical)
        total_critical == Len(profile.critical_fields)
    IN IF critical_count = 0
       THEN [level |-> "LOW", factors |-> <<"All critical fields present">>]
       ELSE IF 10 * critical_count <= 3 * total_critical
       THEN [level |-> "MEDIUM", factors |-> <<"Missing critical fields", "May affect discoverability">>]
       ELSE [level |-> "HIGH",
             factors |-> <<"Missing critical fields", "High rejection risk">>
                         \o (IF \E f \in {"isbn", "price", "product_form"} : f \in Range(missing_critical)
                             THEN <<"Buy button functionality at risk">> ELSE <<>>)]

\* the recommendations, critical gaps first; each is named by its leading words
_generate_retailer_recommendations(critical_missing, recommended_missing, retailer) ==
    LET recommendations ==
            (IF critical_missing # <<>> THEN <<"CRITICAL">> ELSE <<>>)
            \o (IF recommended_missing # <<>> THEN <<"OPTIMIZE">> ELSE <<>>)
            \o (IF retailer = "amazon" /\ "description" \in Range(critical_missing)
                THEN <<"Amazon requires rich descriptions">> ELSE <<>>)
            \o (IF retailer = "ingram" /\ "publisher" \in Range(critical_missing)
                THEN <<"IngramSpark requires publisher info">> ELSE <<>>)
    IN IF recommendations = <<>> THEN <<"Excellent">> ELSE recommendations

_get_compliance_status(missing_critical) ==
    IF missing_critical = <<>> THEN "COMPLIANT"
    ELSE IF Len(missing_critical) <= 2 THEN "PARTIAL_COMPLIANCE"
    ELSE "NON_COMPLIANT"

\* the body of the try block, lines 103-163
RetailerTry(doc, retailer) ==
    LET profile == RETAILER_PROFILES[retailer]
    IN IF ~doc.wellformed THEN Raise("XMLSyntaxError")
       ELSE IF doc.products = <<>>
       THEN Ret([retailer |-> profile.name,
                 overall_score |-> 0,
                 message |-> "No products found in ONIX file",
                 critical_missing |-> profile.critical_fields,
                 risk_level |-> "HIGH"])
       ELSE LET product == doc.products[1]
                scored == Range(profile.weights.keys)
                r == ScoreWeights(product, profile, 1,
                        [field_scores |-> [f \in scored |-> [score |-> 0, weight |-> 0, weighted_score |-> 0]],
                         total_score |-> 0,
                         missing_critical |-> <<>>,
                         missing_recommended |-> <<>>])
            IN IF r.exc # "none" THEN Raise(r.exc)
               ELSE LET risk_assessment == _assess_retailer_risk(r.val.missing_critical, profile)
                    IN Ret([retailer |-> profile.name,
                            retailer_key |-> retailer,
                            overall_score |-> Round1(r.val.total_score, 1),
                            max_possible |-> 100,
                            field_breakdown |-> r.val.field_scores,
                            critical_missing |-> r.val.missing_critical,
                            recommended_missing |-> r.val.missing_recommended,
                            discovery_score |-> _calculate_discovery_score(r.val.field_scores, scored,
                                                                          profile.discovery_boost),
                            risk_level |-> risk_assessment.level,
                            risk_factors |-> risk_assessment.factors,
                            recommendations |-> _generate_retailer_recommendations(
                                                    r.val.missing_critical, r.val.missing_recommended, retailer),
                            compliance_status |-> _get_compliance_status(r.val.missing_critical)])

\* `except Exception as e` of calculate_retailer_score, line 165
RetailerCatches(exc) == IsInstance(exc, "Exception")

calculate_retailer_score(doc, retailer) ==
    IF retailer \notin DOMAIN RETAILER_PROFILES
    THEN Ret([error |-> "Unknown retailer profile", available_profiles |-> RETAILER_KEYS])
    ELSE LET r == RetailerTry(doc, retailer)
         IN IF RetailerCatches(r.exc)
            THEN Ret([retailer |-> RETAILER_PROFILES[retailer].name,
                      error |-> r.exc,
                      overall_score |-> 0,
                      risk_level |-> "UNKNOWN"])
            ELSE r

\* ---- calculate_multi_retailer_score ---------------------------------------
\* the keys of retailer_scores in insertion order: the known names of the
\* request, each at its first occurrence
RECURSIVE EvaluatedKeys(_, _)
EvaluatedKeys(retailers, keys) ==
    IF retailers = <<>> THEN keys
    ELSE LET r == retailers[1]
         IN EvaluatedKeys(Tail(retailers),
                IF r \in DOMAIN RETAILER_PROFILES /\ r \notin Range(keys) THEN Append(keys, r) ELSE keys)

\* the first pair, whatever its score
best_fit_first(scores) == scores[1]

\* max(scores, key=lambda x: x[1]): the first pair with the largest score
best_fit(scores) ==
    LET top == MaxSeq([i \in 1..Len(scores) |-> scores[i][2]])
    IN scores[CHOOSE i \in 1..Len(scores) :
                 scores[i][2] = top /\ \A j \in 1..(i - 1) : scores[j][2] # top]

\* min(scores, key=lambda x: x[1]): the first pair with the smallest score
worst_fit(scores) ==
    LET low == MinSeq([i \in 1..Len(scores) |-> scores[i][2]])
    IN scores[CHOOSE i \in 1..Len(scores) :
                 scores[i][2] = low /\ \A j \in 1..(i - 1) : scores[j][2] # low]

\* list(set(field for field in all_missing
\*          if all_missing.count(field) >= len(retailers) // 2)), with all_missing
\* the concatenation of the critical_missing lists of the evaluated retailers
common_gaps(retailers, keys, retailer_scores, seed) ==
    LET with_missing == {k \in Range(keys) : "critical_missing" \in DOMAIN retailer_scores[k]}
        count(field) == SumSeq([i \in 1..Len(keys) |->
                            IF keys[i] \in with_missing
                            THEN Len(SelectSeq(retailer_scores[keys[i]].critical_missing,
                                               LAMBDA x : x = field))
                            ELSE 0])
        all_missing == UNION {Range(retailer_scores[k].critical_missing) : k \in with_missing}
    IN ListOfSet(seed, {field \in all_missing : count(field) >= Len(retailers) \div 2})

_generate_multi_retailer_recommendation(gaps) ==
    IF gaps = <<>> THEN "Good cross-retailer compatibility" ELSE "Priority: Fix common gaps"

\* the comparison, lines 186-218; keys are the keys of retailer_scores in
\* insertion order, scores the (key, overall_score) pairs
Compare(retailers, keys, retailer_scores, scores, seed) ==
    IF keys = <<>> THEN [error |-> "No valid retailer profiles provided"]
    ELSE IF scores # <<>>
    THEN Bind(<<best_fit(scores), worst_fit(scores), common_gaps(retailers, keys, retailer_scores, seed)>>,
              LAMBDA t :
                 [retailers_analyzed |-> Len(keys),
                  average_score |-> Round1(SumSeq([i \in 1..Len(scores) |-> scores[i][2]]),
                                           10 * Len(scores)),
                  best_fit_retailer |-> t[1][1],
                  best_fit_score |-> t[1][2],
                  worst_fit_retailer |-> t[2][1],
                  worst_fit_score |-> t[2][2],
                  common_gaps |-> t[3],
                  retailer_details |-> retailer_scores,
                  recommendation |-> _generate_multi_retailer_recommendation(t[3])])
    ELSE [error |-> "Unable to calculate comparative metrics", retailer_details |-> retailer_scores]

\* the (key, overall_score) pairs of the results that carry a score, line 190
ScoresOf(keys, retailer_scores) ==
    Bind(SelectSeq(keys, LAMBDA k : "overall_score" \in DOMAIN retailer_scores[k]),
         LAMBDA with_score :
            [i \in 1..Len(with_score) |-> <<with_score[i], retailer_scores[with_score[i]].overall_score>>])

\* requested is the retailers argument; None stands for the default, all
\* profiles.  An exception leaving a call of calculate_retailer_score would
\* leave this function too.
calculate_multi_retailer_score(doc, requested, seed) ==
    Bind(IF requested = <<"None">> THEN RETAILER_KEYS ELSE requested, LAMBDA retailers :
    Bind(EvaluatedKeys(retailers, <<>>), LAMBDA keys :
    Bind([k \in Range(keys) |-> calculate_retailer_score(doc, k)], LAMBDA calls :
        IF \E k \in Range(keys) : calls[k].exc # "none"
        THEN Raise(calls[CHOOSE k \in Range(keys) : calls[k].exc # "none"].exc)
        ELSE Bind([k \in Range(keys) |-> calls[k].val], LAMBDA retailer_scores :
             Bind(ScoresOf(keys, retailer_scores), LAMBDA scores :
                  Ret(Compare(retailers, keys, retailer_scores, scores, seed)))))))

\* ---- findings -------------------------------------------------------------
\* the keys of a finding dict the stages have in common; rule_id 0 stands for
\* a dict without the key
Finding(level, domain, rule_id) == [level |-> level, domain |-> domain, rule_id |-> rule_id]

\* str.upper() on the severities and levels that occur
Upper(str) ==
    CASE str = "error" -> "ERROR"
      [] str = "warn" -> "WARN"
      [] str = "warning" -> "WARNING"
      [] str = "info" -> "INFO"
      [] OTHER -> str

\* ---- rules.engine ----------------------------------------------------------
\* str.strip() on a text held as a sequence of characters
RECURSIVE LStrip(_)
LStrip(text) == IF text # <<>> /\ text[1] = " " THEN LStrip(Tail(text)) ELSE text

RECURSIVE RStrip(_)
RStrip(text) ==
    IF text # <<>> /\ text[Len(text)] = " " THEN RStrip(SubSeq(text, 1, Len(text) - 1)) ELSE text

Strip(text) == RStrip(LStrip(text))

\* An XPath result as lxml returns it: a list of len nodes, a string, a number
\* or a boolean
NodeList(n) == [type |-> "list", len |-> n]

_truthy(value) ==
    CASE value.type = "list" -> value.len > 0
      [] value.type = "str" -> Len(Strip(value.text)) > 0
      [] value.type = "number" -> value.num # 0
      [] value.type = "bool" -> value.b

\* the results an assert expression takes on a context node
AssertResults == {NodeList(0), NodeList(1)}

Severities == {"warn"}

\* A rule of the rules file together with what the XPath engine does with it on
\* the document: when_raises / assert_raises say that evaluating the expression
\* raises XPathEvalError, asserts holds the assert result on each context node
\* that `when` selects.
RuleShapes ==
    [when_raises : {TRUE}, assert_raises : {FALSE}, asserts : {<<>>}, severity : Severities]
    \cup [when_raises : {FALSE}, assert_raises : {FALSE},
          asserts : {<<>>, <<NodeList(1)>>, <<NodeList(0)>>,
                     <<NodeList(0), NodeList(1)>>, <<NodeList(0), NodeList(0)>>},
          severity : Severities]
    \cup [when_raises : {FALSE}, assert_raises : {TRUE},
          asserts : {<<>>, <<NodeList(0)>>}, severity : Severities]

\* rule lists; the id of a rule is its position in the file
RuleLists ==
    {[i \in 1..Len(shapes) |->
        [id |-> i, when_raises |-> shapes[i].when_raises, assert_raises |-> shapes[i].assert_raises,
         asserts |-> shapes[i].asserts, severity |-> shapes[i].severity]] :
     shapes \in SeqsUpTo(RuleShapes, MaxRules)}

\* a rules file: exists, whether load_rules accepts it, and its rules
RulesFiles ==
    [exists : {TRUE}, loads : {TRUE}, rules : RuleLists]
    \cup {[exists |-> FALSE, loads |-> FALSE, rules |-> <<>>],
          [exists |-> TRUE, loads |-> FALSE, rules |-> <<>>]}

DefaultRulesFile ==
    [exists |-> TRUE, loads |-> TRUE,
     rules |-> <<[id |-> 1, when_raises |-> FALSE, assert_raises |-> FALSE,
                  asserts |-> <<NodeList(1)>>, severity |-> "warn"]>>]

\* the names bound in evaluate() or in the module when a handler runs
EvaluateScope == {"onix_path", "rules_path", "namespace_uri", "is_real_onix", "nsmap",
                  "line_extractor", "project_root", "codelists", "findings", "rules",
                  "xml_doc", "root", "rule", "enhanced_rule", "ctx_nodes", "node",
                  "result", "line_num", "node_path", "e"}

NameBound(name) == name \in EvaluateScope

\* the findings a rule adds for its context nodes from node i on (lines 123-146)
RECURSIVE AssertNodes(_, _, _)
AssertNodes(rule, i, findings) ==
    IF i > Len(rule.asserts) THEN [exc |-> "none", val |-> findings]
    ELSE IF rule.assert_raises THEN [exc |-> "XPathEvalError", val |-> findings]
    ELSE AssertNodes(rule, i + 1,
            IF ~_truthy(rule.asserts[i])
            THEN Append(findings, Finding(Upper(rule.severity), "CUSTOM_RULE", rule.id))
            ELSE findings)

\* the try block of the rule loop, lines 112-146
RuleTry(rule, findings) ==
    IF rule.when_raises THEN [exc |-> "XPathEvalError", val |-> findings]
    ELSE IF rule.asserts = <<>> THEN [exc |-> "none", val |-> findings]
    ELSE AssertNodes(rule, 1, findings)

\* a handler of the rule loop, lines 148-167: the "line" entry of its dict reads
\* the name `element` before anything is appended
RuleHandler(rule, findings, domain) ==
    IF NameBound("element")
    THEN [exc |-> "none", val |-> Append(findings, Finding("ERROR", domain, rule.id))]
    ELSE [exc |-> "NameError", val |-> findings]

\* one iteration of `for rule in rules`
EvaluateRule(rule, findings) ==
    LET r == RuleTry(rule, findings)
    IN IF IsInstance(r.exc, "XPathEvalError") THEN RuleHandler(rule, r.val, "XPATH_ERROR")
       ELSE IF IsInstance(r.exc, "Exception") THEN RuleHandler(rule, r.val, "RULE_ERROR")
       ELSE r

\* `for rule in rules`, from rule i on; an exception that leaves an iteration
\* ends the loop
RECURSIVE RuleLoop(_, _, _)
RuleLoop(rules, i, findings) ==
    IF i > Len(rules) THEN [exc |-> "none", val |-> findings]
    ELSE LET r == EvaluateRule(rules[i], findings)
         IN IF r.exc # "none" THEN r ELSE RuleLoop(rules, i + 1, r.val)

\* the outer try block, lines 104-179
EvaluateTry(doc, rf) ==
    IF ~rf.loads THEN [exc |-> "YAMLError", val |-> <<>>]
    ELSE IF ~doc.wellformed THEN [exc |-> "XMLSyntaxError", val |-> <<>>]
    ELSE LET r == RuleLoop(rf.rules, 1, <<>>)
         IN IF r.exc # "none" THEN r
            ELSE IF r.val = <<>> /\ rf.rules # <<>>
            THEN [exc |-> "none", val |-> <<Finding("INFO", "VALIDATION_SUCCESS", 0)>>]
            ELSE r

\* a handler that catches XPath errors only
EvaluateCatchesXPathOnly(exc) == IsInstance(exc, "XPathEvalError")

\* `except Exception as e` of evaluate, line 181
EvaluateCatches(exc) == IsInstance(exc, "Exception")

evaluate(doc, rf) ==
    IF ~rf.exists THEN Ret(<<Finding("ERROR", "RULES_MISSING", 0)>>)
    ELSE LET r == EvaluateTry(doc, rf)
         IN IF EvaluateCatches(r.exc)
            THEN Ret(Append(r.val, Finding("ERROR", "VALIDATION_ERROR", 0)))
            ELSE r

\* ---- validate_xsd ----------------------------------------------------------
\* a schema file: exists, whether is_using_toy_schemas holds of it, whether
\* etree.parse accepts it and whether etree.XMLSchema accepts the parsed tree
XsdFiles ==
    {f \in [exists : {TRUE}, toy : BOOLEAN, wellformed : BOOLEAN, compiles : BOOLEAN] :
        f.compiles => f.wellformed}
    \cup {[exists |-> FALSE, toy |-> FALSE, wellformed |-> FALSE, compiles |-> FALSE]}

DefaultXsdFile == [exists |-> TRUE, toy |-> FALSE, wellformed |-> TRUE, compiles |-> TRUE]

\* a mismatch finding for a recognized document on a sample schema only
XsdMismatchRealOnly(is_real_onix, is_toy_schema) ==
    IF is_real_onix /\ is_toy_schema THEN <<Finding("WARNING", "SCHEMA_MISMATCH", 0)>>
    ELSE <<>>

\* the mismatch finding, lines 53-72
XsdMismatch(is_real_onix, is_toy_schema) ==
    IF is_real_onix /\ is_toy_schema THEN <<Finding("WARNING", "SCHEMA_MISMATCH", 0)>>
    ELSE IF ~is_real_onix /\ ~is_toy_schema THEN <<Finding("INFO", "SCHEMA_INFO", 0)>>
    ELSE <<>>

\* the try block, lines 75-110; error_count is the length of schema.error_log
XsdTry(doc, xsd, error_count, results) ==
    IF ~doc.wellformed \/ ~xsd.wellformed THEN [exc |-> "XMLSyntaxError", val |-> results]
    ELSE IF ~xsd.compiles THEN [exc |-> "XMLSchemaParseError", val |-> results]
    ELSE LET is_valid == error_count = 0
             reported == results \o [i \in 1..error_count |-> Finding("ERROR", "XSD", 0)]
         IN [exc |-> "none",
             val |-> IF is_valid /\ reported = <<>>
                     THEN <<Finding("INFO", "VALIDATION_SUCCESS", 0)>>
                     ELSE reported]

validate_xsd(doc, xsd, error_count) ==
    IF ~xsd.exists THEN Ret(<<Finding("ERROR", "SCHEMA_MISSING", 0)>>)
    ELSE LET r == XsdTry(doc, xsd, error_count,
                         XsdMismatch(detect_onix_namespace(doc).is_real_onix, xsd.toy))
         IN IF IsInstance(r.exc, "XMLSyntaxError")
            THEN Ret(Append(r.val, Finding("ERROR", "XML_SYNTAX", 0)))
            ELSE IF IsInstance(r.exc, "Exception")
            THEN Ret(Append(r.val, Finding("ERROR", "VALIDATION_ERROR", 0)))
            ELSE r

\* ---- validate_schematron ----------------------------------------------------
\* a pattern-rule file: exists, whether etree.parse accepts it, whether
\* Schematron() accepts the parsed tree
SchFiles ==
    {f \in [exists : {TRUE}, wellformed : BOOLEAN, compiles : BOOLEAN] : f.compiles => f.wellformed}
    \cup {[exists |-> FALSE, wellformed |-> FALSE, compiles |-> FALSE]}

DefaultSchFile == [exists |-> TRUE, wellformed |-> TRUE, compiles |-> TRUE]

\* the role attribute of a failed-assert, lower-cased
Roles == {"error", "warning", "information"}

\* a try block that adds the success finding whenever the report is valid
SchTryMarkerWhenValid(doc, sch, failed, successes) ==
    IF ~doc.wellformed \/ ~sch.wellformed THEN [exc |-> "XMLSyntaxError", val |-> <<>>]
    ELSE IF ~sch.compiles THEN [exc |-> "SchematronParseError", val |-> <<>>]
    ELSE [exc |-> "none",
          val |-> [i \in 1..Len(failed) |->
                      Finding(IF failed[i] = "error" THEN "ERROR"
                              ELSE IF failed[i] = "warning" THEN "WARNING" ELSE "INFO",
                              "SCHEMATRON_RULE", 0)]
                  \o [i \in 1..successes |-> Finding("INFO", "SCHEMATRON_INFO", 0)]
                  \o (IF failed = <<>> THEN <<Finding("INFO", "VALIDATION_SUCCESS", 0)>> ELSE <<>>)]

\* the try block, lines 51-120; failed is the role of each failed-assert of
\* the report, successes the number of its successful-report elements
SchTry(doc, sch, failed, successes) ==
    IF ~doc.wellformed \/ ~sch.wellformed THEN [exc |-> "XMLSyntaxError", val |-> <<>>]
    ELSE IF ~sch.compiles THEN [exc |-> "SchematronParseError", val |-> <<>>]
    ELSE LET is_valid == failed = <<>>
             results == [i \in 1..Len(failed) |->
                            Finding(IF failed[i] = "error" THEN "ERROR"
                                    ELSE IF failed[i] = "warning" THEN "WARNING" ELSE "INFO",
                                    "SCHEMATRON_RULE", 0)]
                        \o [i \in 1..successes |-> Finding("INFO", "SCHEMATRON_INFO", 0)]
         IN [exc |-> "none",
             val |-> IF is_valid /\ results = <<>>
                     THEN <<Finding("INFO", "VALIDATION_SUCCESS", 0)>>
                     ELSE results]

\* a validator that goes to the try block without looking for the file
validate_schematron_unchecked(doc, sch, failed, successes) ==
    LET r == SchTry(doc, sch, failed, successes)
    IN IF IsInstance(r.exc, "XMLSyntaxError")
       THEN Ret(Append(r.val, Finding("ERROR", "XML_SYNTAX", 0)))
       ELSE IF IsInstance(r.exc, "Exception")
       THEN Ret(Append(r.val, Finding("ERROR", "VALIDATION_ERROR", 0)))
       ELSE r

validate_schematron(doc, sch, failed, successes) ==
    IF ~sch.exists THEN Ret(<<Finding("ERROR", "SCHEMATRON_MISSING", 0)>>)
    ELSE LET r == SchTry(doc, sch, failed, successes)
         IN IF IsInstance(r.exc, "XMLSyntaxError")
            THEN Ret(Append(r.val, Finding("ERROR", "XML_SYNTAX", 0)))
            ELSE IF IsInstance(r.exc, "Exception")
            THEN Ret(Append(r.val, Finding("ERROR", "VALIDATION_ERROR", 0)))
            ELSE r

\* ---- codelists.CodelistManager ----------------------------------------------
\* A code table is the set of its codes.  A list name is a key format and a
\* list number: _load_xml_codelists stores each list under its number n, under
\* "List" + n and under "list_" + n, in this order.
KeyFormats == <<"number", "List", "list_">>

Key(format, list_number) == <<format, list_number>>

\* a CodeList element of the XML file: has_number is whether it has a
\* CodeListNumber child; without one `xpath("CodeListNumber/text()")[0]` raises
\* IndexError
CodeListEntries ==
    {[list_number |-> "150", has_number |-> TRUE, codes |-> {"BC"}],
     [list_number |-> "150", has_number |-> TRUE, codes |-> {"AC"}],
     [list_number |-> "150", has_number |-> FALSE, codes |-> {}]}

\* ONIX_BookProduct_Codelists_Issue_70.xml: exists, whether etree.parse
\* accepts it, and its CodeList elements in document order
XmlFiles ==
    [exists : {TRUE}, parses : {TRUE}, lists : SeqsUpTo(CodeListEntries, MaxCodeLists)]
    \cup {[exists |-> FALSE, parses |-> FALSE, lists |-> <<>>],
          [exists |-> TRUE, parses |-> FALSE, lists |-> <<>>]}

\* the names and codes the callers ask for
Queries ==
    {[list_name |-> Key("number", "150"), code |-> "BC"],
     [list_name |-> Key("List", "150"), code |-> "BC"],
     [list_name |-> Key("number", "91"), code |-> "US"]}

QueryNames == {q.list_name : q \in Queries}

\* the CSV file of a list name: absent, readable with a table, or unreadable
NoCsv == [n \in QueryNames |-> [state |-> "absent", table |-> {}]]

CsvFiles ==
    {NoCsv,
     [NoCsv EXCEPT ![Key("number", "91")] = [state |-> "readable", table |-> {"US"}]],
     [NoCsv EXCEPT ![Key("number", "91")] = [state |-> "unreadable", table |-> {}]]}

DefaultCodelistsDir ==
    [xml |-> [exists |-> FALSE, parses |-> FALSE, lists |-> <<>>], csv |-> NoCsv]

\* CodelistManager.__init__: _loaded_lists and _xml_codelists are dicts, held as
\* the set of their items
NewManager == [_loaded_lists |-> {}, _xml_parsed |-> FALSE, _xml_codelists |-> {}]

Keys(dict) == {item[1] : item \in dict}

Get(dict, key) == (CHOOSE item \in dict : item[1] = key)[2]

\* dict[key] = value
Put(dict, key, value) == {item \in dict : item[1] # key} \cup {<<key, value>>}

\* _xml_codelists after one thread alone has run _load_xml_codelists over the
\* entries from entry i on: the loop stops at the first entry that raises
RECURSIVE ParseAlone(_, _, _)
ParseAlone(lists, i, dict) ==
    IF i > Len(lists) \/ ~lists[i].has_number THEN dict
    ELSE ParseAlone(lists, i + 1,
            Put(Put(Put(dict, Key(KeyFormats[1], lists[i].list_number), lists[i].codes),
                    Key(KeyFormats[2], lists[i].list_number), lists[i].codes),
                Key(KeyFormats[3], lists[i].list_number), lists[i].codes))

\* _load_csv_codelist, lines 76-106
_load_csv_codelist(dir, list_name) ==
    IF dir.csv[list_name].state = "readable" THEN dir.csv[list_name].table ELSE {}

\* load_codelist on a new manager, no other thread running
LoadAlone(dir, list_name) ==
    LET dict == IF dir.xml.exists /\ dir.xml.parses THEN ParseAlone(dir.xml.lists, 1, {}) ELSE {}
    IN IF list_name \in Keys(dict) THEN Get(dict, list_name) ELSE _load_csv_codelist(dir, list_name)

\* rules.engine.load_edl_codelists: the four lists the rule engine knows
load_edl_codelists ==
    {<<"List5", {"01", "02", "03", "04", "05"}>>, <<"List7", {"BC", "BB", "BD", "ED", "EB"}>>,
     <<"List91", {"01", "02", "11", "12", "13"}>>, <<"List163", {"01", "02", "09", "11", "19"}>>}

\* rules.engine.validate_against_codelist
validate_against_codelist(value, codelist_name, codelists) ==
    IF codelist_name \notin Keys(codelists) THEN TRUE
    ELSE value \in Get(codelists, codelist_name)

\* A thread between two calls
Idle == [pc |-> "idle"]

Threads == 1..MaxThreads

\* ---- utils.line_extractor ----------------------------------------------------
\* A Python string is the sequence of its characters.
Digits == {"0", "1", "2", "3", "4", "5", "6", "7", "8", "9"}

DigitValue(c) ==
    CASE c = "0" -> 0 [] c = "1" -> 1 [] c = "2" -> 2 [] c = "3" -> 3 [] c = "4" -> 4
      [] c = "5" -> 5 [] c = "6" -> 6 [] c = "7" -> 7 [] c = "8" -> 8 [] c = "9" -> 9

\* int(s) for a string of digits
RECURSIVE ParseInt(_)
ParseInt(s) ==
    IF s = <<>> THEN 0
    ELSE 10 * ParseInt(SubSeq(s, 1, Len(s) - 1)) + DigitValue(s[Len(s)])

\* `s in t` for strings
IsSubstring(s, t) ==
    \E i \in 0..(Len(t) - Len(s)) : SubSeq(t, i + 1, i + Len(s)) = s

\* the first index after i that holds c, 0 when there is none
FirstAfter(s, i, c) ==
    IF \E j \in (i + 1)..Len(s) : s[j] = c
    THEN CHOOSE j \in (i + 1)..Len(s) : s[j] = c /\ \A k \in (i + 1)..(j - 1) : s[k] # c
    ELSE 0

\* the last index of the run of digits that starts at i, i - 1 when s[i] is
\* no digit
RECURSIVE DigitsEnd(_, _)
DigitsEnd(s, i) ==
    IF i <= Len(s) /\ s[i] \in Digits THEN DigitsEnd(s, i + 1) ELSE i - 1

\* re.sub(r'\[[^\]]+\]', '', s), from index i on
RECURSIVE StripPredicates(_, _)
StripPredicates(s, i) ==
    IF i > Len(s) THEN <<>>
    ELSE LET close == FirstAfter(s, i, "]")
         IN IF s[i] = "[" /\ close >= i + 2
            THEN StripPredicates(s, close + 1)
            ELSE <<s[i]>> \o StripPredicates(s, i + 1)

\* re.findall(r'\[(\d+)\]', s), from index i on, as integers
RECURSIVE PositionIndicators(_, _)
PositionIndicators(s, i) ==
    IF i > Len(s) THEN <<>>
    ELSE LET last == DigitsEnd(s, i + 1)
         IN IF s[i] = "[" /\ last >= i + 1 /\ last < Len(s) /\ s[last + 1] = "]"
            THEN <<ParseInt(SubSeq(s, i + 1, last))>> \o PositionIndicators(s, last + 2)
            ELSE PositionIndicators(s, i + 1)

\* The document a LineNumberExtractor is made for: whether etree.parse
\* accepts it and, in document order, the getpath() and the sourceline of each
\* element.
Element(path, sourceline) == [path |-> path, sourceline |-> sourceline]

\* /a with two b children, the second with a child c, each on a line of its own
ManyLines ==
    [wellformed |-> TRUE,
     elements |-> <<Element(<<"/", "a">>, 1), Element(<<"/", "a", "/", "b", "[", "1", "]">>, 2),
                    Element(<<"/", "a", "/", "b", "[", "2", "]">>, 4), Element(<<"/", "a", "/", "b", "[", "2", "]", "/", "c">>, 5)>>]

\* the same document written on one line
OneLine ==
    [wellformed |-> TRUE,
     elements |-> [i \in 1..Len(ManyLines.elements) |-> Element(ManyLines.elements[i].path, 1)]]

\* a prolog on the first line, /a with one child b
AfterProlog ==
    [wellformed |-> TRUE,
     elements |-> <<Element(<<"/", "a">>, 2), Element(<<"/", "a", "/", "b">>, 3)>>]

Unparseable == [wellformed |-> FALSE, elements |-> <<>>]

ResolverDocuments == {ManyLines, OneLine, AfterProlog, Unparseable}

\* XPath and location strings
Locations ==
    {<<>>, <<"/", "a">>,
     <<"/", "a", "/", "b">>,
     <<"/", "a", "/", "b", "[", "1", "]">>,
     <<"/", "a", "/", "b", "[", "2", "]">>,
     <<"/", "a", "/", "b", "[", "2", "]", "/", "c">>,
     <<"/", "a", "/", "b", "[", "3", "]">>,
     <<"/", "a", "/", "c", "[", "2", "]">>,
     <<"/", "a", "[", "1", "]", "/", "b", "[", "2", "]">>,
     <<"/", "x">>,
     <<"/", "x", "[", "3", "]">>,
     <<"/", "x", "[", "0", "]">>,
     <<"/", "x", "[", "]">>,
     <<"b">>,
     <<"/", "a", "/", "b", "[", "c", "]">>}

\* _build_line_map, lines 25-39: the dict in insertion order; a later element of
\* the same path replaces the line of the earlier one
RECURSIVE LineMapOf(_, _, _)
LineMapOf(elements, i, line_map) ==
    IF i > Len(elements) THEN line_map
    ELSE LET e == elements[i]
             at == {k \in 1..Len(line_map) : line_map[k].path = e.path}
         IN LineMapOf(elements, i + 1,
                IF e.sourceline = 0 THEN line_map
                ELSE IF at = {} THEN Append(line_map, e)
                ELSE [k \in 1..Len(line_map) |-> IF k \in at THEN e ELSE line_map[k]])

_build_line_map(doc) ==
    IF doc.wellformed THEN LineMapOf(doc.elements, 1, <<>>) ELSE <<>>

\* the loop of lines 56-64 from entry i on; best is 0 for best_match = None
RECURSIVE ClosestMatch(_, _, _, _)
ClosestMatch(line_map, xpath, i, best) ==
    IF i > Len(line_map) THEN best
    ELSE LET simplified_xpath == StripPredicates(xpath, 1)
             simplified_mapped == StripPredicates(line_map[i].path, 1)
         IN ClosestMatch(line_map, xpath, i + 1,
                IF /\ \/ IsSubstring(simplified_mapped, simplified_xpath)
                      \/ IsSubstring(simplified_xpath, simplified_mapped)
                   /\ (best = 0 \/ Len(line_map[i].path) > Len(line_map[best].path))
                THEN i ELSE best)

\* LineNumberExtractor.extract_line_from_xpath, lines 43-66
extract_line_from_xpath(doc, xpath) ==
    IF xpath = <<>> THEN 1
    ELSE LET line_map == _build_line_map(doc)
             direct == {k \in 1..Len(line_map) : line_map[k].path = xpath}
         IN IF direct # {} THEN line_map[CHOOSE k \in direct : TRUE].sourceline
            ELSE LET best_match == ClosestMatch(line_map, xpath, 1, 0)
                 IN IF best_match # 0 THEN line_map[best_match].sourceline ELSE 1

\* _extract_line_from_position_indicators, lines 83-106.  The second search
\* (lines 96-101) runs only when the first pattern found nothing, and then its
\* own pattern finds nothing either.
_extract_line_from_position_indicators(location) ==
    LET matches == PositionIndicators(location, 1)
    IN IF matches # <<>>
       THEN LET max_position == MaxSeq(matches)
            IN IF max_position > 1 THEN max_position ELSE 1
       ELSE 1

\* LineNumberExtractor.extract_line_from_location, lines 70-79
extract_line_from_location(doc, location) ==
    IF location = <<>> THEN 1
    ELSE LET line == extract_line_from_xpath(doc, location)
         IN IF line > 1 THEN line ELSE _extract_line_from_position_indicators(location)

\* A parser message is the sequence of the words the patterns look for, its
\* digits and its other characters.
ErrorMessages ==
    {<<>>, <<"x">>,
     <<"line ", "7">>,
     <<"line ", "0">>,
     <<"Line ", "1", "2">>,
     <<"x", ":", "3", ":", "x">>,
     <<"position ", "0">>,
     <<"line ", "x">>,
     <<":", "4">>,
     <<"x", "position ", "5", "line ", "2">>}

\* re.search(word + r'(\d+)', msg): the number after the leftmost word that a
\* digit follows, -1 without a match
SearchNumber(word, msg) ==
    LET at == {i \in 1..(Len(msg) - 1) : msg[i] = word /\ msg[i + 1] \in Digits}
    IN IF at = {} THEN -1
       ELSE LET i == CHOOSE j \in at : \A k \in at : j <= k
            IN ParseInt(SubSeq(msg, i + 1, DigitsEnd(msg, i + 1)))

\* re.search(r':(\d+):', msg)
SearchBetweenColons(msg) ==
    LET at == {i \in 1..(Len(msg) - 2) :
                  /\ msg[i] = ":" /\ msg[i + 1] \in Digits
                  /\ DigitsEnd(msg, i + 1) < Len(msg) /\ msg[DigitsEnd(msg, i + 1) + 1] = ":"}
    IN IF at = {} THEN -1
       ELSE LET i == CHOOSE j \in at : \A k \in at : j <= k
            IN ParseInt(SubSeq(msg, i + 1, DigitsEnd(msg, i + 1)))

\* line_patterns, lines 112-118; r'at line (\d+)' finds nothing that
\* r'line (\d+)' has not found before it
LinePatternMatches(msg) ==
    <<SearchNumber("line ", msg), SearchNumber("Line ", msg), SearchNumber("line ", msg),
      SearchNumber("position ", msg), SearchBetweenColons(msg)>>

\* LineNumberExtractor.extract_line_from_error, lines 110-132
extract_line_from_error(doc, error_msg, xpath) ==
    LET found == LinePatternMatches(error_msg)
        hits == {k \in 1..Len(found) : found[k] # -1}
    IN IF hits # {} THEN found[CHOOSE k \in hits : \A j \in hits : k <= j]
       ELSE IF xpath # <<>> THEN extract_line_from_xpath(doc, xpath)
       ELSE 1

\* ---- the findings of a pattern-engine report (validators.onix_schematron) ---
\* str.split("[")
RECURSIVE Split(_, _, _)
Split(s, i, part) ==
    IF i > Len(s) THEN <<part>>
    ELSE IF s[i] = "[" THEN <<part>> \o Split(s, i + 1, <<>>)
    ELSE Split(s, i + 1, Append(part, s[i]))

\* str.isdigit()
IsDigit(s) == s # <<>> /\ \A i \in 1..Len(s) : s[i] \in Digits

\* extract_line_number_from_location, lines 146-160
extract_line_number_from_location(location) ==
    IF location # <<>> /\ "[" \in Range(location)
    THEN LET parts == Split(location, 1, <<>>)
             hits == {k \in 1..Len(parts) :
                         /\ IsDigit(parts[k]) /\ "]" \in Range(parts[k])
                         /\ ParseInt(SubSeq(parts[k], 1, FirstAfter(parts[k], 0, "]") - 1)) > 0}
         IN IF hits # {}
            THEN LET k == CHOOSE j \in hits : \A h \in hits : j <= h
                 IN ParseInt(SubSeq(parts[k], 1, FirstAfter(parts[k], 0, "]") - 1))
            ELSE 1
    ELSE 1

\* the test expressions of the pattern rules
Tests == {"b", "count(c) = 1"}

\* an entry of the report: failed says failed-assert, otherwise successful-report
ReportEntries == [failed : BOOLEAN, location : Locations \ {<<>>}, test : Tests, role : {"error", "warning"}]

\* the dict of lines 76-87 (failed-assert) and 98-109 (successful-report)
ReportFinding(entry) ==
    [line |-> extract_line_number_from_location(entry.location),
     level |-> IF ~entry.failed THEN "INFO"
               ELSE IF entry.role = "error" THEN "ERROR"
               ELSE IF entry.role = "warning" THEN "WARNING" ELSE "INFO",
     domain |-> IF entry.failed THEN "SCHEMATRON_RULE" ELSE "SCHEMATRON_INFO",
     test |-> entry.test,
     location |-> entry.location]

\* the values an XPath expression evaluates to: node lists, strings, numbers,
\* booleans
XPathResults ==
    {NodeList(0), NodeList(1), NodeList(2)}
    \cup {[type |-> "str", text |-> t] : t \in {<<>>, <<"a">>, <<" ">>, <<" ", "a", " ">>, <<" ", " ">>}}
    \cup {[type |-> "number", num |-> n] : n \in {-1, 0, 1}}
    \cup {[type |-> "bool", b |-> b] : b \in BOOLEAN}

\* ---- the full pipeline ------------------------------------------------------
\* The pipelines call the stages without artifact paths: xsd, sch and rf are
\* the files found at the paths the stages select.  is_using_toy_schemas holds
\* of every file below samples/onix_samples, whatever it contains.
AutoSelectedXsd(doc, xsd) ==
    [xsd EXCEPT !.toy = @ \/ SelectArtifacts(doc).xsd_path = "data/samples/onix_samples/onix.xsd"]

\* what the schema engine and the pattern-rule engine report on a document
PipelineReports ==
    {[error_count |-> 0, failed |-> <<>>, successes |-> 0],
     [error_count |-> 1, failed |-> <<"error">>, successes |-> 0],
     [error_count |-> 0, failed |-> <<"warning">>, successes |-> 1]}

\* a report of engines that found nothing
PipelineNoErrors == [error_count |-> 0, failed |-> <<>>, successes |-> 0]

\* One step of a pipeline: acc is [exc, all_results, stages]; when selected the
\* stage is called, its findings are appended and its name recorded.  An
\* exception that leaves a stage leaves the steps after it undone.
PipelineStep(acc, selected, name, call) ==
    IF acc.exc # "none" \/ ~selected THEN acc
    ELSE IF call.exc # "none" THEN [acc EXCEPT !.exc = call.exc]
    ELSE [exc |-> "none", all_results |-> acc.all_results \o call.val,
          stages |-> Append(acc.stages, name)]

\* the finding a scoring step adds: the score record travels inside it
ScoringFinding(domain, call) ==
    IF call.exc # "none" THEN call ELSE Ret(<<Finding("INFO", domain, 0)>>)

\* The stages are functions of the files alone, so what each of them returns
\* or raises is worked out first; PipelineStep decides which of them ran.
\* cli.main.cmd_validate_full, lines 94-131
cmd_validate_full(doc, xsd, sch, rf, skip_nielsen, report, seed) ==
    Bind(<<validate_xsd(doc, AutoSelectedXsd(doc, xsd), report.error_count),
           validate_schematron(doc, sch, report.failed, report.successes),
           evaluate(doc, rf),
           ScoringFinding("NIELSEN_SCORE", calculate_nielsen_score(doc, seed))>>,
         LAMBDA calls :
           LET start == [exc |-> "none", all_results |-> <<>>, stages |-> <<>>]
               step1 == PipelineStep(start, TRUE, "xsd", calls[1])
               step2 == PipelineStep(step1, TRUE, "schematron", calls[2])
               step3 == PipelineStep(step2, TRUE, "rules", calls[3])
               step4 == PipelineStep(step3, ~skip_nielsen, "nielsen_scoring", calls[4])
           IN IF step4.exc # "none" THEN Raise(step4.exc)
              ELSE Ret([all_results |-> step4.all_results, stages |-> step4.stages]))

\* the requests of process_validation: pipeline_stages, include_nielsen,
\* include_retailer and retailers (empty: none given)
ValidationRequests ==
    [pipeline_stages : {{"xsd", "schematron", "rules", "scoring"}, {"xsd"},
                        {"schematron", "rules"}, {"scoring"}},
     include_nielsen : BOOLEAN,
     include_retailer : {TRUE},
     retailers : {<<>>, <<"amazon", "ingram">>}]

\* api.main.process_validation, lines 1039-1128: the inner try block and the
\* handler of the outer one
process_validation(doc, xsd, sch, rf, request, report, seed) ==
    Bind(<<validate_xsd(doc, AutoSelectedXsd(doc, xsd), report.error_count),
           validate_schematron(doc, sch, report.failed, report.successes),
           evaluate(doc, rf),
           ScoringFinding("NIELSEN_SCORE", calculate_nielsen_score(doc, seed)),
           ScoringFinding("RETAILER_ANALYSIS",
               calculate_multi_retailer_score(doc, request.retailers, seed))>>,
         LAMBDA calls :
           LET start == [exc |-> "none", all_results |-> <<>>, stages |-> <<>>]
               scoring == "scoring" \in request.pipeline_stages
               step1 == PipelineStep(start, "xsd" \in request.pipeline_stages, "xsd", calls[1])
               step2 == PipelineStep(step1, "schematron" \in request.pipeline_stages,
                                     "schematron", calls[2])
               step3 == PipelineStep(step2, "rules" \in request.pipeline_stages, "rules", calls[3])
               step4 == PipelineStep(step3, request.include_nielsen /\ scoring,
                                     "nielsen_scoring", calls[4])
               step5 == PipelineStep(step4,
                            request.include_retailer /\ request.retailers # <<>> /\ scoring,
                            "retailer_profiling", calls[5])
           IN IF IsInstance(step5.exc, "Exception")
              THEN Ret([status |-> "failed", all_results |-> <<>>, stages |-> <<>>])
              ELSE Ret([status |-> "completed", all_results |-> step5.all_results,
                        stages |-> step5.stages]))

\* ---- api.state_manager ---------------------------------------------------------
\* An Optional value is a sequence: <<>> for None, <<v>> for v.
None == <<>>

Some(v) == <<v>>

MaxValidations == 2

\* the ids validations are stored under
ValidationIds == 1..MaxValidations

\* at most MaxCalls calls are made on a ValidationStateManager
MaxCalls == 4

\* the dataclass ValidationState as create_validation fills it; the time to
\* live plays no part without the cleanup task
ValidationState(validation_id, filename, file_size, user_id, tenant, now) ==
    [id |-> validation_id, status |-> "pending", filename |-> filename, file_size |-> file_size,
     submitted_at |-> now, completed_at |-> None, results |-> None, error |-> None,
     user_id |-> user_id, tenant |-> tenant, pipeline_summary |-> None]

\* self._states[validation_id] = state
Store(store, validation_id, state) ==
    [i \in DOMAIN store \cup {validation_id} |-> IF i = validation_id THEN state ELSE store[i]]

\* Each method is the pair of what it returns and the store it leaves; the
\* lock makes a call one step.
create_validation(store, validation_id, filename, file_size, user_id, tenant, now) ==
    LET state == ValidationState(validation_id, filename, file_size, user_id, tenant, now)
    IN [ret |-> state, states |-> Store(store, validation_id, state)]

get_validation(store, validation_id) ==
    [ret |-> IF validation_id \in DOMAIN store THEN Some(store[validation_id]) ELSE None,
     states |-> store]

\* an update_status that stamps completed_at whatever the status
update_status_always_stamps(store, validation_id, status, now) ==
    IF validation_id \in DOMAIN store
    THEN [ret |-> TRUE,
          states |-> [store EXCEPT ![validation_id].status = status,
                                   ![validation_id].completed_at = Some(now)]]
    ELSE [ret |-> FALSE, states |-> store]

update_status(store, validation_id, status, now) ==
    IF validation_id \in DOMAIN store
    THEN [ret |-> TRUE,
          states |-> [store EXCEPT ![validation_id].status = status,
                                   ![validation_id].completed_at =
                                       IF status \in {"completed", "failed"} THEN Some(now) ELSE @]]
    ELSE [ret |-> FALSE, states |-> store]

set_results(store, validation_id, results) ==
    IF validation_id \in DOMAIN store
    THEN [ret |-> TRUE, states |-> [store EXCEPT ![validation_id].results = Some(results)]]
    ELSE [ret |-> FALSE, states |-> store]

set_error(store, validation_id, error) ==
    IF validation_id \in DOMAIN store
    THEN [ret |-> TRUE, states |-> [store EXCEPT ![validation_id].error = Some(error)]]
    ELSE [ret |-> FALSE, states |-> store]

set_pipeline_summary(store, validation_id, summary) ==
    IF validation_id \in DOMAIN store
    THEN [ret |-> TRUE, states |-> [store EXCEPT ![validation_id].pipeline_summary = Some(summary)]]
    ELSE [ret |-> FALSE, states |-> store]

\* list_validations with a tenant and no user_id: the ids of the dict it returns
list_validations(store, tenant) ==
    [ret |-> {i \in DOMAIN store : store[i].tenant = tenant}, states |-> store]

\* get_stats, lines 156-175, without the average of the processing times
get_stats(store) ==
    LET total == Cardinality(DOMAIN store)
        completed == Cardinality({i \in DOMAIN store : store[i].status = "completed"})
        failed == Cardinality({i \in DOMAIN store : store[i].status = "failed"})
    IN [ret |-> [total_validations |-> total,
                 completed_validations |-> completed,
                 failed_validations |-> failed,
                 pending_validations |-> total - completed - failed],
        states |-> store]

\* ---- the state machine ------------------------------------------------------
NoCall == [op |-> "none"]

\* the names a comparison request is made of
RequestNames == {"amazon", "ingram", "apple", UnknownRetailer}

\* lists of up to MaxRequested different names, and None
Requests ==
    {r \in SeqsUpTo(RequestNames, MaxRequested) : Cardinality(Range(r)) = Len(r)}
    \cup {<<"None">>}

\* no validation is stored or queued
NoApi ==
    /\ states = <<>>
    /\ tasks = <<>>
    /\ clock = 0

\* no codelist manager is in use, no validation stored
NoManager ==
    /\ codelistsDir = DefaultCodelistsDir
    /\ manager = NewManager
    /\ threads = [t \in Threads |-> Idle]
    /\ served = <<>>
    /\ NoApi

Init ==
    /\ result = NoCall
    /\ NoManager
    /\ \/ /\ onix \in ScoredDocuments
          /\ rulesFile = DefaultRulesFile
          /\ xsdFile = DefaultXsdFile
          /\ schFile = DefaultSchFile
       \/ /\ onix \in {DefaultDocument, Garbage}
          /\ rulesFile \in RulesFiles
          /\ xsdFile = DefaultXsdFile
          /\ schFile = DefaultSchFile
       \/ /\ onix \in VariantDocuments
          /\ rulesFile = DefaultRulesFile
          /\ xsdFile \in XsdFiles
          /\ schFile \in SchFiles

\* A run applies one entry point to the input files.  The entry points keep
\* nothing between calls, so a further call would only repeat a run.
Call(op, args, r) ==
    /\ result = NoCall
    /\ result' = [op |-> op, args |-> args, exc |-> r.exc, val |-> r.val]
    /\ UNCHANGED <<onix, rulesFile, xsdFile, schFile, codelistsDir, manager, threads, served,
                   states, tasks, clock>>

CallEvaluate == Call("evaluate", <<>>, evaluate(onix, rulesFile))

CallValidateXsd ==
    \E error_count \in 0..MaxDiagnostics :
        Call("validate_xsd", <<error_count>>, validate_xsd(onix, xsdFile, error_count))

CallValidateSchematron ==
    \E failed \in SeqsUpTo(Roles, MaxDiagnostics), successes \in 0..MaxDiagnostics :
        Call("validate_schematron", <<failed, successes>>,
             validate_schematron(onix, schFile, failed, successes))

\* seed is the hash seed of the process that makes the call
CallSelectArtifacts == Call("select_artifacts", <<>>, Ret(SelectArtifacts(onix)))

CallNielsenScore ==
    \E seed \in Seeds :
        Call("calculate_nielsen_score", <<seed>>, calculate_nielsen_score(onix, seed))

CallRetailerScore ==
    \E retailer \in RetailerNames :
        Call("calculate_retailer_score", <<retailer>>, calculate_retailer_score(onix, retailer))

CallMultiRetailerScore ==
    \E requested \in Requests, seed \in Seeds :
        Call("calculate_multi_retailer_score", <<requested, seed>>,
             calculate_multi_retailer_score(onix, requested, seed))

Next ==
    \/ CallEvaluate
    \/ CallValidateXsd
    \/ CallValidateSchematron
    \/ CallSelectArtifacts
    \/ CallNielsenScore
    \/ CallRetailerScore
    \/ CallMultiRetailerScore

Spec == Init /\ [][Next]_vars

\* ---- the pipelines as entry points ------------------------------------------
\* documents of every variant, a document without products and one with gaps
PipelineDocuments ==
    VariantDocuments
    \cup {[DefaultDocument EXCEPT !.products = <<>>],
          [DefaultDocument EXCEPT !.products = <<OnlyIdTitle>>]}

MissingFile(file) == [file EXCEPT !.exists = FALSE]

\* every document with the artifacts in place, and a well-formed and a
\* malformed document with each artifact in place or missing
InitPipeline ==
    /\ result = NoCall
    /\ NoManager
    /\ \/ /\ onix \in PipelineDocuments
          /\ rulesFile = DefaultRulesFile
          /\ xsdFile \in {DefaultXsdFile, [DefaultXsdFile EXCEPT !.toy = TRUE]}
          /\ schFile = DefaultSchFile
       \/ /\ onix \in {DefaultDocument, Garbage}
          /\ rulesFile \in {DefaultRulesFile, MissingFile(DefaultRulesFile)}
          /\ xsdFile \in {DefaultXsdFile, MissingFile(DefaultXsdFile)}
          /\ schFile \in {DefaultSchFile, MissingFile(DefaultSchFile)}

CallValidateFull ==
    \E skip_nielsen \in BOOLEAN, report \in PipelineReports, seed \in Seeds :
        Call("cmd_validate_full", <<skip_nielsen, report, seed>>,
             cmd_validate_full(onix, xsdFile, schFile, rulesFile, skip_nielsen, report, seed))

CallProcessValidation ==
    \E request \in ValidationRequests, report \in PipelineReports, seed \in Seeds :
        Call("process_validation", <<request, report, seed>>,
             process_validation(onix, xsdFile, schFile, rulesFile, request, report, seed))

NextPipeline ==
    \/ CallValidateFull
    \/ CallProcessValidation

PipelineSpec == InitPipeline /\ [][NextPipeline]_vars

\* ---- threads on one CodelistManager -----------------------------------------
\* Each thread calls manager.is_valid_code(list_name, code), which calls
\* load_codelist.  A step is one access to an attribute of the manager; what a
\* thread does between two accesses touches its own locals and the read-only
\* files only.
InitCodelists ==
    /\ result = NoCall
    /\ onix = DefaultDocument
    /\ rulesFile = DefaultRulesFile
    /\ xsdFile = DefaultXsdFile
    /\ schFile = DefaultSchFile
    /\ codelistsDir \in [xml : XmlFiles, csv : CsvFiles]
    /\ manager = NewManager
    /\ threads = [t \in Threads |-> Idle]
    /\ served = <<>>
    /\ NoApi

Files == <<onix, rulesFile, xsdFile, schFile, result, codelistsDir, states, tasks, clock>>

Goto(t, pc) == threads' = [threads EXCEPT ![t].pc = pc]

\* is_valid_code is called: at most MaxLoads calls are made on the manager
StartCall(t) ==
    /\ threads[t] = Idle
    /\ Len(served) + Cardinality({u \in Threads : threads[u] # Idle}) < MaxLoads
    /\ \E q \in Queries :
          threads' = [threads EXCEPT ![t] = [pc |-> "check_loaded", list_name |-> q.list_name,
                                             code |-> q.code, i |-> 0, k |-> 0, table |-> {}]]
    /\ UNCHANGED <<Files, manager, served>>

\* load_codelist, lines 64-65
CheckLoaded(t) ==
    /\ threads[t].pc = "check_loaded"
    /\ IF threads[t].list_name \in Keys(manager._loaded_lists)
       THEN threads' = [threads EXCEPT ![t].pc = "return",
                                       ![t].table = Get(manager._loaded_lists, threads[t].list_name)]
       ELSE Goto(t, "check_parsed")
    /\ UNCHANGED <<Files, manager, served>>

\* _load_xml_codelists, lines 21-31: return when parsed or when the file is
\* missing; a file etree.parse rejects ends in the handler of line 59
CheckParsed(t) ==
    /\ threads[t].pc = "check_parsed"
    /\ IF manager._xml_parsed \/ ~codelistsDir.xml.exists \/ ~codelistsDir.xml.parses
       THEN Goto(t, "check_xml")
       ELSE threads' = [threads EXCEPT ![t].pc = "parse", ![t].i = 1, ![t].k = 1]
    /\ UNCHANGED <<Files, manager, served>>

\* _load_xml_codelists, lines 34-60: the next store of the loop, the flag after
\* the last entry, or the handler when an entry has no number
ParseStep(t) ==
    /\ threads[t].pc = "parse"
    /\ LET lists == codelistsDir.xml.lists
           i == threads[t].i
           k == threads[t].k
       IN IF i > Len(lists)
          THEN /\ manager' = [manager EXCEPT !._xml_parsed = TRUE]
               /\ Goto(t, "check_xml")
          ELSE IF ~lists[i].has_number
          THEN /\ Goto(t, "check_xml")
               /\ UNCHANGED manager
          ELSE /\ manager' = [manager EXCEPT !._xml_codelists =
                                 Put(@, Key(KeyFormats[k], lists[i].list_number), lists[i].codes)]
               /\ threads' = [threads EXCEPT ![t].i = IF k < Len(KeyFormats) THEN i ELSE i + 1,
                                               ![t].k = IF k < Len(KeyFormats) THEN k + 1 ELSE 1]
    /\ UNCHANGED <<Files, served>>

\* load_codelist, line 69
CheckXml(t) ==
    /\ threads[t].pc = "check_xml"
    /\ Goto(t, IF threads[t].list_name \in Keys(manager._xml_codelists) THEN "read_xml" ELSE "csv")
    /\ UNCHANGED <<Files, manager, served>>

\* load_codelist, line 70, right-hand side
ReadXml(t) ==
    /\ threads[t].pc = "read_xml"
    /\ threads' = [threads EXCEPT ![t].pc = "store_loaded",
                                   ![t].table = Get(manager._xml_codelists, threads[t].list_name)]
    /\ UNCHANGED <<Files, manager, served>>

\* load_codelist, line 70, the store
StoreLoaded(t) ==
    /\ threads[t].pc = "store_loaded"
    /\ manager' = [manager EXCEPT !._loaded_lists = Put(@, threads[t].list_name, threads[t].table)]
    /\ Goto(t, "return_xml")
    /\ UNCHANGED <<Files, served>>

\* load_codelist, line 71
ReturnXml(t) ==
    /\ threads[t].pc = "return_xml"
    /\ threads' = [threads EXCEPT ![t].pc = "return",
                                   ![t].table = Get(manager._xml_codelists, threads[t].list_name)]
    /\ UNCHANGED <<Files, manager, served>>

\* load_codelist, line 74: _load_csv_codelist stores what it returns
LoadCsv(t) ==
    /\ threads[t].pc = "csv"
    /\ LET codelist == _load_csv_codelist(codelistsDir, threads[t].list_name)
       IN /\ manager' = [manager EXCEPT !._loaded_lists = Put(@, threads[t].list_name, codelist)]
          /\ threads' = [threads EXCEPT ![t].pc = "return", ![t].table = codelist]
    /\ UNCHANGED <<Files, served>>

\* is_valid_code, line 111; served lists the calls in the order they returned
ReturnValid(t) ==
    /\ threads[t].pc = "return"
    /\ served' = Append(served, [thread |-> t, list_name |-> threads[t].list_name,
                                  code |-> threads[t].code, table |-> threads[t].table,
                                  valid |-> threads[t].code \in threads[t].table])
    /\ threads' = [threads EXCEPT ![t] = Idle]
    /\ UNCHANGED <<Files, manager>>

NextCodelists ==
    \E t \in Threads :
        \/ StartCall(t)
        \/ CheckLoaded(t)
        \/ CheckParsed(t)
        \/ ParseStep(t)
        \/ CheckXml(t)
        \/ ReadXml(t)
        \/ StoreLoaded(t)
        \/ ReturnXml(t)
        \/ LoadCsv(t)
        \/ ReturnValid(t)

CodelistSpec == InitCodelists /\ [][NextCodelists]_vars

\* ---- the helper functions as entry points -----------------------------------
\* The line resolver is made for a document; _truthy and the dict of a report
\* entry take their arguments only.
InitUnit ==
    /\ result = NoCall
    /\ NoManager
    /\ onix \in ResolverDocuments
    /\ rulesFile = DefaultRulesFile
    /\ xsdFile = DefaultXsdFile
    /\ schFile = DefaultSchFile

CallExtractLineFromXpath ==
    \E xpath \in Locations :
        Call("extract_line_from_xpath", <<xpath>>, Ret(extract_line_from_xpath(onix, xpath)))

CallExtractLineFromLocation ==
    \E location \in Locations :
        Call("extract_line_from_location", <<location>>,
             Ret(extract_line_from_location(onix, location)))

CallExtractLineFromError ==
    \E error_msg \in ErrorMessages, xpath \in Locations :
        Call("extract_line_from_error", <<error_msg, xpath>>,
             Ret(extract_line_from_error(onix, error_msg, xpath)))

CallReportFinding ==
    \E entry \in ReportEntries :
        Call("report_finding", <<entry>>, Ret(ReportFinding(entry)))

CallTruthy ==
    \E value \in XPathResults : Call("_truthy", <<value>>, Ret(_truthy(value)))

NextUnit ==
    \/ CallExtractLineFromXpath
    \/ CallExtractLineFromLocation
    \/ CallExtractLineFromError
    \/ CallReportFinding
    \/ CallTruthy

UnitSpec == InitUnit /\ [][NextUnit]_vars

\* ---- calls on a ValidationStateManager ---------------------------------------
\* The manager starts empty (lines 35-39).  clock is the time datetime.now
\* returns; every call takes one tick.
InitManager ==
    /\ result = NoCall
    /\ NoManager
    /\ onix = DefaultDocument
    /\ rulesFile = DefaultRulesFile
    /\ xsdFile = DefaultXsdFile
    /\ schFile = DefaultSchFile

Statuses == {"pending", "processing", "completed", "failed"}

Tenants == {"default", "tenant1"}

\* a call of a method: r is [ret, states]
ManagerCall(op, args, r) ==
    /\ clock < MaxCalls
    /\ clock' = clock + 1
    /\ result' = [op |-> op, args |-> args, exc |-> "none", val |-> r.ret]
    /\ states' = r.states
    /\ UNCHANGED <<onix, rulesFile, xsdFile, schFile, codelistsDir, manager, threads, served, tasks>>

CallCreateValidation ==
    \E validation_id \in ValidationIds, tenant \in Tenants :
        ManagerCall("create_validation", <<validation_id, tenant>>,
                    create_validation(states, validation_id, "test.xml", 1024, "user1", tenant,
                                      clock + 1))

CallGetValidation ==
    \E validation_id \in ValidationIds :
        ManagerCall("get_validation", <<validation_id>>, get_validation(states, validation_id))

CallUpdateStatus ==
    \E validation_id \in ValidationIds, status \in Statuses :
        ManagerCall("update_status", <<validation_id, status>>,
                    update_status(states, validation_id, status, clock + 1))

CallSetResults ==
    \E validation_id \in ValidationIds :
        ManagerCall("set_results", <<validation_id, "results">>,
                    set_results(states, validation_id, "results"))

CallSetError ==
    \E validation_id \in ValidationIds :
        ManagerCall("set_error", <<validation_id, "error">>,
                    set_error(states, validation_id, "error"))

CallSetPipelineSummary ==
    \E validation_id \in ValidationIds :
        ManagerCall("set_pipeline_summary", <<validation_id, "summary">>,
                    set_pipeline_summary(states, validation_id, "summary"))

CallListValidations ==
    \E tenant \in Tenants :
        ManagerCall("list_validations", <<tenant>>, list_validations(states, tenant))

CallGetStats == ManagerCall("get_stats", <<>>, get_stats(states))

NextManager ==
    \/ CallCreateValidation
    \/ CallGetValidation
    \/ CallUpdateStatus
    \/ CallSetResults
    \/ CallSetError
    \/ CallSetPipelineSummary
    \/ CallListValidations
    \/ CallGetStats

ManagerSpec == InitManager /\ [][NextManager]_vars

\* ---- the validation endpoints and the background task ------------------------
\* The endpoints and process_validation run on one event loop.
\* process_validation awaits nothing, so once it has started no endpoint runs
\* before it has ended; its steps are the calls it makes on the state manager
\* and on the file system.  tasks holds, per validation id, the position of
\* its background task and the arguments it was queued with: the uploaded
\* document and, as the stages of lines 1053-1114 are a function of the
\* document, what they return on it.
InitApi ==
    /\ result = NoCall
    /\ NoManager
    /\ onix = DefaultDocument
    /\ rulesFile = DefaultRulesFile
    /\ xsdFile = DefaultXsdFile
    /\ schFile = DefaultSchFile

\* get_current_user, lines 207-229: the one token that is accepted
current_user == [user_id |-> "demo_user", tenant |-> "default"]

\* an upload: whether the file name ends in .xml, the length of the content
\* against the limits of lines 276-280, and the document
Uploads == [xml_name : BOOLEAN, length : {"empty", "ok", "too_large"},
            doc : {DefaultDocument, Garbage}]

\* ValidationRequest(), lines 73-78: the defaults of the request options
DefaultRequest ==
    [pipeline_stages |-> {"xsd", "schematron", "rules", "scoring"}, include_nielsen |-> TRUE,
     include_retailer |-> TRUE, retailers |-> <<"amazon", "ingram", "apple">>]

\* no background task is between its first and its last step
LoopFree == \A i \in DOMAIN tasks : tasks[i].pc \in {"queued", "done"}

HTTPException(status_code) == [exc |-> "HTTPException", val |-> [status_code |-> status_code]]

\* an endpoint answers with response and leaves store
Respond(op, args, response, store) ==
    /\ result' = [op |-> op, args |-> args, exc |-> response.exc, val |-> response.val]
    /\ states' = store
    /\ UNCHANGED <<onix, rulesFile, xsdFile, schFile, codelistsDir, manager, threads, served>>

\* validate_onix, lines 247-307; uuid4() gives an id that is not in use
Submit ==
    /\ LoopFree
    /\ \E upload \in Uploads :
          IF ~upload.xml_name
          THEN Respond("validate_onix", <<upload>>, HTTPException(400), states)
               /\ UNCHANGED <<tasks, clock>>
          ELSE IF upload.length = "too_large"
          THEN Respond("validate_onix", <<upload>>, HTTPException(413), states)
               /\ UNCHANGED <<tasks, clock>>
          ELSE IF upload.length = "empty"
          THEN Respond("validate_onix", <<upload>>, HTTPException(400), states)
               /\ UNCHANGED <<tasks, clock>>
          ELSE /\ ValidationIds \ DOMAIN states # {}
               /\ LET validation_id == CHOOSE i \in ValidationIds \ DOMAIN states :
                                          \A j \in ValidationIds \ DOMAIN states : i <= j
                      created == create_validation(states, validation_id, "upload.xml", 1024,
                                                   current_user.user_id, current_user.tenant,
                                                   clock + 1)
                  IN /\ Respond("validate_onix", <<upload>>,
                                Ret([validation_id |-> validation_id, status |-> "accepted"]),
                                created.states)
                     /\ \E run \in {process_validation(upload.doc, xsdFile, schFile, rulesFile,
                                                       DefaultRequest, PipelineNoErrors, 1).val} :
                           tasks' = Store(tasks, validation_id,
                                          [pc |-> "queued", doc |-> upload.doc, run |-> run])
                     /\ clock' = clock + 1

\* the body of a ValidationResult, lines 324-333
ValidationResult(state) ==
    [id |-> state.id, status |-> state.status, filename |-> state.filename,
     submitted_at |-> state.submitted_at, completed_at |-> state.completed_at,
     results |-> state.results, error |-> state.error, pipeline_summary |-> state.pipeline_summary]

\* get_validation_result, lines 309-335
GetValidationResult ==
    /\ LoopFree
    /\ \E validation_id \in ValidationIds :
          LET validation_state == get_validation(states, validation_id).ret
          IN Respond("get_validation_result", <<validation_id>>,
                     IF validation_state = None THEN HTTPException(404)
                     ELSE IF validation_state[1].tenant # current_user.tenant THEN HTTPException(403)
                     ELSE Ret(ValidationResult(validation_state[1])),
                     states)
    /\ UNCHANGED <<tasks, clock>>

\* list_validations, lines 337-365: the ids of the results; status_filter
\* "None" stands for no filter
ListValidations ==
    /\ LoopFree
    /\ \E status_filter \in {"None", "completed"} :
          LET validations == list_validations(states, current_user.tenant).ret
          IN Respond("list_validations", <<status_filter>>,
                     Ret([validations |->
                              {i \in validations :
                                  status_filter = "None" \/ states[i].status = status_filter}]),
                     states)
    /\ UNCHANGED <<tasks, clock>>

\* delete_validation, lines 367-384
DeleteValidation ==
    /\ LoopFree
    /\ \E validation_id \in ValidationIds :
          LET validation_state == get_validation(states, validation_id).ret
          IN Respond("delete_validation", <<validation_id>>,
                     IF validation_state = None THEN HTTPException(404)
                     ELSE IF validation_state[1].tenant # current_user.tenant THEN HTTPException(403)
                     ELSE Ret([message |-> "Validation deleted successfully"]),
                     states)
    /\ UNCHANGED <<tasks, clock>>

\* get_api_stats, lines 386-414: the counts of the tenant
GetApiStats ==
    /\ LoopFree
    /\ LET tenant_validations == list_validations(states, current_user.tenant).ret
       IN Respond("get_api_stats", <<>>,
                  Ret([total_validations |-> Cardinality(tenant_validations),
                       completed_validations |->
                           Cardinality({i \in tenant_validations : states[i].status = "completed"}),
                       failed_validations |->
                           Cardinality({i \in tenant_validations : states[i].status = "failed"})]),
                  states)
    /\ UNCHANGED <<tasks, clock>>

\* a step of the background task of validation_id
TaskStep(validation_id, pc, store) ==
    /\ tasks' = [tasks EXCEPT ![validation_id].pc = pc]
    /\ states' = store
    /\ UNCHANGED <<onix, rulesFile, xsdFile, schFile, result, codelistsDir, manager, threads, served>>

\* process_validation, line 1041: the task starts when the loop is free
TaskStart(validation_id) ==
    /\ LoopFree
    /\ tasks[validation_id].pc = "queued"
    /\ TaskStep(validation_id, "write_temp",
                update_status(states, validation_id, "processing", clock + 1).states)
    /\ clock' = clock + 1

\* lines 1044-1047: the upload is written to a temporary file, or the write
\* raises OSError
TaskWriteTemp(validation_id) ==
    /\ tasks[validation_id].pc = "write_temp"
    /\ \E written \in BOOLEAN :
          TaskStep(validation_id, IF written THEN "pipeline" ELSE "handler", states)
    /\ UNCHANGED clock

\* lines 1053-1119: the stages, then set_results, set_pipeline_summary and
\* update_status; an exception of a stage goes through the finally block to the
\* handler
TaskPipeline(validation_id) ==
    /\ tasks[validation_id].pc = "pipeline"
    /\ \E run \in {tasks[validation_id].run} :
          IF run.status = "failed"
          THEN TaskStep(validation_id, "handler", states) /\ UNCHANGED clock
          ELSE /\ \E with_results \in {set_results(states, validation_id, run.all_results).states} :
                    TaskStep(validation_id, "finally",
                             update_status(
                                 set_pipeline_summary(with_results, validation_id, run.stages).states,
                                 validation_id, "completed", clock + 1).states)
               /\ clock' = clock + 1

\* lines 1121-1124: the finally block after the stages returned; os.unlink
\* removes the temporary file or raises OSError
TaskFinally(validation_id) ==
    /\ tasks[validation_id].pc = "finally"
    /\ \E unlinked \in BOOLEAN :
          TaskStep(validation_id, IF unlinked THEN "done" ELSE "handler", states)
    /\ UNCHANGED clock

\* lines 1126-1136: `except Exception`; its own clean-up swallows every error
TaskHandler(validation_id) ==
    /\ tasks[validation_id].pc = "handler"
    /\ TaskStep(validation_id, "done",
                update_status(set_error(states, validation_id, "OSError").states,
                              validation_id, "failed", clock + 1).states)
    /\ clock' = clock + 1

TaskSteps ==
    \E validation_id \in DOMAIN tasks :
        \/ TaskStart(validation_id)
        \/ TaskWriteTemp(validation_id)
        \/ TaskPipeline(validation_id)
        \/ TaskFinally(validation_id)
        \/ TaskHandler(validation_id)

NextApi ==
    \/ Submit
    \/ GetValidationResult
    \/ ListValidations
    \/ DeleteValidation
    \/ GetApiStats
    \/ TaskSteps

ApiSpec == InitApi /\ [][NextApi]_vars

\* A queued background task is run once the response is sent, and a task that
\* runs is not suspended.
ApiFairSpec == ApiSpec /\ WF_vars(TaskSteps)

\* ---- properties -------------------------------------------------------------
Returned(op) == result.op = op /\ result.exc = "none"

\* the field's content passes its presence/quality gate
PredicateTrue(product, f) == product[f] = "good"

\* the weights the product earns, in points
Earned(product) ==
    SumSeq([i \in 1..Len(NIELSEN_KEYS) |->
              IF PredicateTrue(product, NIELSEN_KEYS[i]) THEN NIELSEN_WEIGHTS[NIELSEN_KEYS[i]] ELSE 0])

\* evaluating the rule on the document raises an XPath evaluation error
RuleRaises(rule) == rule.when_raises \/ (rule.assert_raises /\ rule.asserts # <<>>)

FindingsOf(findings, id) == SelectSeq(findings, LAMBDA f : f.rule_id = id)

\* C1: rule isolation.  Every rule whose when or assert raises contributes
\* exactly one ERROR finding carrying its id, and every other rule of the list
\* contributes exactly the findings it contributes on its own.
RuleIsolation ==
    (Returned("evaluate") /\ onix.wellformed /\ rulesFile.loads) =>
        \A i \in 1..Len(rulesFile.rules) :
            LET rule == rulesFile.rules[i]
                own == FindingsOf(result.val, rule.id)
            IN IF RuleRaises(rule)
               THEN Len(own) = 1 /\ own[1].level = "ERROR"
               ELSE own = RuleTry(rule, <<>>).val

WeightSumScore ==
    /\ total_possible = 100
    /\ (Returned("calculate_nielsen_score") /\ onix.wellformed /\ Len(onix.products) = 1) =>
          LET product == onix.products[1]
              true_fields == {f \in Fields : PredicateTrue(product, f)}
          IN /\ result.val.overall_score = 10 * Earned(product)
             /\ true_fields = {"isbn", "title"} =>
                    Range(result.val.missing_critical) = Fields \ {"isbn", "title"}

\* C4: for a document of n >= 1 products the result carries products_count = n,
\* the minimum and maximum per-product score, and the mean of the per-product
\* scores (to the one decimal a score has), with 0 <= min <= mean <= max <= 100.
MeanAggregation ==
    (Returned("calculate_nielsen_score") /\ onix.wellformed /\ onix.products # <<>>) =>
        LET n == Len(onix.products)
            scores == [i \in 1..n |-> 10 * Earned(onix.products[i])]
            r == result.val
            diff == 10 * n * r.overall_score - 10 * SumSeq(scores)
        IN /\ {"products_count", "min_score", "max_score"} \subseteq DOMAIN r
           /\ r.products_count = n
           /\ r.min_score = MinSeq(scores)
           /\ r.max_score = MaxSeq(scores)
           /\ -5 * n <= diff /\ diff <= 5 * n
           /\ 0 <= r.min_score /\ r.min_score <= r.overall_score
           /\ r.overall_score <= r.max_score /\ r.max_score <= 1000

\* C5: a field predicate that fails at runtime is isolated: every product is
\* still scored, and every field of it whose predicate is true still earns
\* its weight.
FieldIsolation ==
    (Returned("calculate_nielsen_score") /\ onix.wellformed /\ onix.products # <<>>) =>
        /\ "products_scores" \in DOMAIN result.val
        /\ Len(result.val.products_scores) = Len(onix.products)
        /\ \A i \in 1..Len(onix.products) : \A f \in Fields :
              PredicateTrue(onix.products[i], f) =>
                  result.val.products_scores[i].breakdown[f] = NIELSEN_WEIGHTS[f]

\* C6: retailer scoring covers every product: the result reports
\* products_count >= 1, and a critical field of the profile that some product
\* lacks is reported in critical_missing.
RetailerAllProducts ==
    (Returned("calculate_retailer_score") /\ result.args[1] \in DOMAIN RETAILER_PROFILES
        /\ onix.wellformed /\ onix.products # <<>>) =>
        LET profile == RETAILER_PROFILES[result.args[1]]
        IN /\ "products_count" \in DOMAIN result.val
           /\ result.val.products_count >= 1
           /\ "critical_missing" \in DOMAIN result.val
           /\ \A i \in 1..Len(onix.products) : \A f \in Range(profile.critical_fields) :
                 ~PredicateTrue(onix.products[i], f) => f \in Range(result.val.critical_missing)

\* C7: a missing identifier, price or format always gives risk HIGH, and risk
\* is LOW only when no critical field is missing.
RiskEscalation ==
    (Returned("calculate_retailer_score") /\ "critical_missing" \in DOMAIN result.val) =>
        /\ (\E f \in {"isbn", "price", "product_form"} : f \in Range(result.val.critical_missing))
              => result.val.risk_level = "HIGH"
        /\ result.val.risk_level = "LOW" => result.val.critical_missing = <<>>

\* C8: every result for a known profile carries a compliance status that is
\* COMPLIANT with no missing critical field, PARTIAL_COMPLIANCE with one or
\* two, NON_COMPLIANT with three or more, the result for a document without
\* products included.
ComplianceStatus ==
    (Returned("calculate_retailer_score") /\ result.args[1] \in DOMAIN RETAILER_PROFILES
        /\ onix.wellformed) =>
        /\ {"compliance_status", "critical_missing"} \subseteq DOMAIN result.val
        /\ LET missing == Len(result.val.critical_missing)
           IN result.val.compliance_status =
                 (IF missing = 0 THEN "COMPLIANT"
                  ELSE IF missing <= 2 THEN "PARTIAL_COMPLIANCE" ELSE "NON_COMPLIANT")

\* the critical_missing list of one retailer result, empty when it has none
CriticalMissingOf(detail) ==
    IF "critical_missing" \in DOMAIN detail THEN Range(detail.critical_missing) ELSE {}

\* C9: in a comparison, best_fit_score >= average_score >= worst_fit_score,
\* best and worst are the maximum and minimum of the retailers' overall
\* scores, and common_gaps lies within the union of their critical_missing.
ComparativeSymmetry ==
    (Returned("calculate_multi_retailer_score") /\ "best_fit_score" \in DOMAIN result.val) =>
        LET r == result.val
            details == r.retailer_details
        IN /\ r.best_fit_score >= r.average_score
           /\ r.average_score >= r.worst_fit_score
           /\ \A k \in DOMAIN details : /\ details[k].overall_score <= r.best_fit_score
                                        /\ details[k].overall_score >= r.worst_fit_score
           /\ r.best_fit_score = details[r.best_fit_retailer].overall_score
           /\ r.worst_fit_score = details[r.worst_fit_retailer].overall_score
           /\ Range(r.common_gaps) \subseteq UNION {CriticalMissingOf(details[k]) : k \in DOMAIN details}

\* C9 witness: a comparison of several retailers whose scores differ, with a
\* common gap
ComparativeSymmetryWitness ==
    /\ Returned("calculate_multi_retailer_score")
    /\ "best_fit_score" \in DOMAIN result.val
    /\ result.val.retailers_analyzed >= 3
    /\ result.val.best_fit_score > result.val.average_score
    /\ result.val.average_score > result.val.worst_fit_score
    /\ result.val.common_gaps # <<>>

\* C10: a field is a common gap exactly when at least half of the evaluated
\* retailers report it in critical_missing.
CommonGapsHalf ==
    (Returned("calculate_multi_retailer_score") /\ "common_gaps" \in DOMAIN result.val) =>
        LET details == result.val.retailer_details
            evaluated == Cardinality(DOMAIN details)
            missing_in(f) == Cardinality({k \in DOMAIN details : f \in CriticalMissingOf(details[k])})
        IN \A f \in Fields :
              f \in Range(result.val.common_gaps) <=> (missing_in(f) >= 1 /\ 2 * missing_in(f) >= evaluated)

\* a second run of the recorded call on the same files with the same engine
\* output, made by a process whose hash seed is seed
Rerun(seed) ==
    CASE result.op = "evaluate" -> evaluate(onix, rulesFile)
      [] result.op = "validate_xsd" -> validate_xsd(onix, xsdFile, result.args[1])
      [] result.op = "validate_schematron" ->
            validate_schematron(onix, schFile, result.args[1], result.args[2])
      [] result.op = "calculate_nielsen_score" -> calculate_nielsen_score(onix, seed)
      [] result.op = "calculate_retailer_score" -> calculate_retailer_score(onix, result.args[1])
      [] result.op = "calculate_multi_retailer_score" ->
            calculate_multi_retailer_score(onix, result.args[1], seed)

\* C11: determinism.  A second run of a call on the same document and the same
\* resources gives the outcome of the first, lists in the same order, whichever
\* process makes it.
Determinism ==
    result.op \in {"evaluate", "validate_xsd", "validate_schematron", "calculate_nielsen_score",
                   "calculate_retailer_score", "calculate_multi_retailer_score"} =>
        \A seed \in Seeds : Rerun(seed) = [exc |-> result.exc, val |-> result.val]

\* the artifacts the repository ships for recognized documents, and the samples
ProductionArtifacts ==
    {"data/editeur/ONIX_BookProduct_3.0_reference.xsd", "data/editeur/ONIX_BookProduct_3.0_short.xsd",
     "data/editeur/schematron/onix-production-rules.sch", "diagnostic/rules.yml"}

FallbackArtifacts ==
    {"data/samples/onix_samples/onix.xsd", "data/samples/onix_samples/rules.sch",
     "diagnostic/rules.sample.yml"}

SelectedArtifacts(selection) == {selection.xsd_path, selection.sch_path, selection.rules_path}

\* C12: variant round trip.  A document whose root is in the reference
\* namespace classifies as (reference, recognized), one in the short-tag
\* namespace as (short, recognized), one without namespace as (none, not
\* recognized); a recognized variant is assigned production artifacts only
\* (the schema of its own variant), the none variant the three samples.
VariantRoundTrip ==
    (Returned("select_artifacts") /\ onix.wellformed) =>
        LET r == result.val
        IN /\ onix.ns = "reference" => r.namespace_uri = "reference" /\ r.is_real_onix
           /\ onix.ns = "short" => r.namespace_uri = "short" /\ r.is_real_onix
           /\ (onix.ns = "none" /\ onix.nsmap = {}) => r.namespace_uri = "none" /\ ~r.is_real_onix
           /\ r.is_real_onix <=> r.namespace_uri \in {"reference", "short"}
           /\ r.namespace_uri = "reference" =>
                 r.xsd_path = "data/editeur/ONIX_BookProduct_3.0_reference.xsd"
           /\ r.namespace_uri = "short" =>
                 r.xsd_path = "data/editeur/ONIX_BookProduct_3.0_short.xsd"
           /\ r.is_real_onix => SelectedArtifacts(r) \subseteq ProductionArtifacts
           /\ ~r.is_real_onix => SelectedArtifacts(r) = FallbackArtifacts

\* C12 witness: a short-tag document was assigned the short-tag schema and the
\* production pattern rules
VariantRoundTripWitness ==
    /\ Returned("select_artifacts")
    /\ onix.wellformed /\ onix.ns = "short"
    /\ result.val.xsd_path = "data/editeur/ONIX_BookProduct_3.0_short.xsd"
    /\ result.val.sch_path = "data/editeur/schematron/onix-production-rules.sch"

WithDomain(findings, domains) == SelectSeq(findings, LAMBDA f : f.domain \in domains)

\* C13: missing artifact.  When the schema file or the pattern-rule file does
\* not exist the stage raises nothing and returns exactly one finding, an
\* ERROR that reports the missing file, with no mismatch, validation or
\* success finding beside it.
MissingArtifact ==
    /\ (result.op = "validate_xsd" /\ ~xsdFile.exists) =>
          /\ result.exc = "none"
          /\ Len(result.val) = 1
          /\ result.val[1].level = "ERROR" /\ result.val[1].domain = "SCHEMA_MISSING"
    /\ (result.op = "validate_schematron" /\ ~schFile.exists) =>
          /\ result.exc = "none"
          /\ Len(result.val) = 1
          /\ result.val[1].level = "ERROR" /\ result.val[1].domain = "SCHEMATRON_MISSING"

\* C13 witness: both stages were run on a missing file
MissingArtifactWitness ==
    /\ Returned("validate_schematron")
    /\ ~schFile.exists /\ ~xsdFile.exists
    /\ onix.wellformed
    /\ result.val # <<>>

\* C14: mismatch finding of validate_xsd.  A recognized document on a sample
\* schema gets exactly one WARNING mismatch finding, an unrecognized document
\* on a production schema exactly one INFO one; it is the first finding, and
\* the validation findings follow it as they would without it.  When document
\* and schema match there is no mismatch finding.
MismatchWarning ==
    (Returned("validate_xsd") /\ xsdFile.exists) =>
        LET is_real_onix == detect_onix_namespace(onix).is_real_onix
            mismatch == WithDomain(result.val, {"SCHEMA_MISMATCH", "SCHEMA_INFO"})
            parsed == onix.wellformed /\ xsdFile.wellformed /\ xsdFile.compiles
        IN /\ (is_real_onix /\ xsdFile.toy) =>
                 mismatch = <<Finding("WARNING", "SCHEMA_MISMATCH", 0)>> /\ result.val[1] = mismatch[1]
           /\ (~is_real_onix /\ ~xsdFile.toy) =>
                 mismatch = <<Finding("INFO", "SCHEMA_INFO", 0)>> /\ result.val[1] = mismatch[1]
           /\ (is_real_onix <=> ~xsdFile.toy) => mismatch = <<>>
           /\ parsed => Len(WithDomain(result.val, {"XSD"})) = result.args[1]
           /\ ~parsed => Len(WithDomain(result.val, {"XML_SYNTAX", "VALIDATION_ERROR"})) = 1

\* C14 witness: a mismatch warning followed by a validation error
MismatchWarningWitness ==
    /\ Returned("validate_xsd")
    /\ Len(result.val) >= 2
    /\ result.val[1].domain = "SCHEMA_MISMATCH"
    /\ result.val[2].domain = "XSD"

IsSuccess(finding) == finding.domain = "VALIDATION_SUCCESS"

\* C15: success marker of validate_xsd and validate_schematron.  When the
\* engine reports the document valid and nothing else was found the stage
\* returns exactly one finding, INFO / VALIDATION_SUCCESS; a success finding
\* occurs in no other case and always alone, and with its artifact present
\* a stage never returns an empty list.
SuccessMarker ==
    /\ (Returned("validate_xsd") /\ xsdFile.exists) =>
          LET clean == /\ onix.wellformed /\ xsdFile.wellformed /\ xsdFile.compiles
                       /\ result.args[1] = 0
                       /\ XsdMismatch(detect_onix_namespace(onix).is_real_onix, xsdFile.toy) = <<>>
          IN /\ result.val # <<>>
             /\ clean => result.val = <<Finding("INFO", "VALIDATION_SUCCESS", 0)>>
             /\ (\E i \in 1..Len(result.val) : IsSuccess(result.val[i])) =>
                    clean /\ Len(result.val) = 1
    /\ (Returned("validate_schematron") /\ schFile.exists) =>
          LET clean == /\ onix.wellformed /\ schFile.wellformed /\ schFile.compiles
                       /\ result.args[1] = <<>> /\ result.args[2] = 0
          IN /\ result.val # <<>>
             /\ clean => result.val = <<Finding("INFO", "VALIDATION_SUCCESS", 0)>>
             /\ (\E i \in 1..Len(result.val) : IsSuccess(result.val[i])) =>
                    clean /\ Len(result.val) = 1

\* C15 witness: a valid report with an informational finding, hence no marker
SuccessMarkerWitness ==
    /\ Returned("validate_schematron")
    /\ schFile.compiles /\ onix.wellformed
    /\ result.args[1] = <<>> /\ result.args[2] > 0
    /\ \A i \in 1..Len(result.val) : ~IsSuccess(result.val[i])

Levels == {"ERROR", "WARNING", "INFO"}

\* C20: the level of a finding is one of ERROR, WARNING, INFO, whichever stage
\* emits it; the finding of a failed rule carries the level of the rule's
\* severity, the default severity "warn" included.
LevelClosed ==
    (result.op \in {"validate_xsd", "validate_schematron", "evaluate"} /\ result.exc = "none") =>
        \A i \in 1..Len(result.val) : result.val[i].level \in Levels

\* C16: malformed input.  When the document does not parse (the artifacts
\* being in place), a pipeline reports one ERROR finding, the XML syntax error
\* of the stage that met it, and runs no stage after that one.
MalformedStopsPipeline ==
    (result.op \in {"cmd_validate_full", "process_validation"} /\ result.exc = "none"
        /\ ~onix.wellformed /\ result.val.stages # <<>>
        /\ xsdFile.exists /\ schFile.exists /\ rulesFile.exists) =>
        LET errors == SelectSeq(result.val.all_results, LAMBDA f : f.level = "ERROR")
        IN /\ Len(errors) = 1
           /\ errors[1].domain = "XML_SYNTAX"
           /\ Len(result.val.stages) = 1

\* the list numbers the XML file models
ModeledNumbers == {codelistsDir.xml.lists[i].list_number : i \in 1..Len(codelistsDir.xml.lists)}

\* C17: codelist fail-open.  For a list number that the resource does not
\* model, every membership query answers valid, the manager's as the rule
\* engine's.
CodelistFailOpen ==
    \A n \in 1..Len(served) :
        LET call == served[n]
        IN (call.list_name[2] \notin ModeledNumbers
              /\ codelistsDir.csv[call.list_name].state = "absent") =>
                /\ call.valid
                /\ validate_against_codelist(call.code, call.list_name[2], load_edl_codelists)

\* the XML file is missing, or parsing it fails somewhere
Degraded ==
    \/ ~codelistsDir.xml.exists
    \/ ~codelistsDir.xml.parses
    \/ \E i \in 1..Len(codelistsDir.xml.lists) : ~codelistsDir.xml.lists[i].has_number

\* C18: graceful degradation.  With the XML file missing or corrupt, every
\* load returns the empty table (no list of a partly parsed file is served),
\* the first load and the later ones.
CodelistDegradesToEmpty ==
    Degraded =>
        \A n \in 1..Len(served) :
            codelistsDir.csv[served[n].list_name].state # "readable" => served[n].table = {}

\* C19: write-once, read-many.  In every interleaving each call for a list
\* returns the table one thread alone loads for it, and all calls for the list
\* return the same table.
CodelistWriteOnce ==
    \A n \in 1..Len(served) :
        /\ served[n].table = LoadAlone(codelistsDir, served[n].list_name)
        /\ \A m \in 1..n : served[m].list_name = served[n].list_name =>
                                served[m].table = served[n].table

\* ---- C21 ---------------------------------------------------------------------
ResolverOps == {"extract_line_from_xpath", "extract_line_from_location", "extract_line_from_error"}

\* C21: whatever string it is given, each of the three operations of the line
\* resolver returns an integer of at least 1 and raises nothing.
ResolverLineValid ==
    result.op \in ResolverOps => result.exc = "none" /\ result.val \in Nat /\ result.val >= 1

\* ---- C24 ---------------------------------------------------------------------
\* the entries of the line map whose path, predicates stripped, is part of the
\* stripped query or has the stripped query as a part
SubstringMatches(line_map, query) ==
    {k \in 1..Len(line_map) :
        \/ IsSubstring(StripPredicates(line_map[k].path, 1), StripPredicates(query, 1))
        \/ IsSubstring(StripPredicates(query, 1), StripPredicates(line_map[k].path, 1))}

\* what the lookup order gives for a query: the line of the exact entry, else
\* the line of a longest matching entry, else the largest [n] of a location
\* string, else 1
LookupOrderLines(line_map, query, positions) ==
    LET exact == {k \in 1..Len(line_map) : line_map[k].path = query}
        matches == SubstringMatches(line_map, query)
    IN IF exact # {} THEN {line_map[k].sourceline : k \in exact}
       ELSE IF matches # {}
       THEN {line_map[k].sourceline : k \in
                {m \in matches : \A n \in matches : Len(line_map[m].path) >= Len(line_map[n].path)}}
       ELSE IF positions /\ PositionIndicators(query, 1) # <<>>
       THEN {IF MaxSeq(PositionIndicators(query, 1)) > 1
             THEN MaxSeq(PositionIndicators(query, 1)) ELSE 1}
       ELSE {1}

\* C24: extract_line_from_xpath and extract_line_from_location return the line
\* of the exactly mapped element; without one, the line of the longest mapped
\* key that matches once the predicates are stripped; the [n] indices of a
\* location string count only when nothing matches, and 1 is returned only
\* when there are none.
LookupOrder ==
    /\ result.op = "extract_line_from_xpath" /\ result.args[1] # <<>>
          => result.val \in LookupOrderLines(_build_line_map(onix), result.args[1], FALSE)
    /\ result.op = "extract_line_from_location" /\ result.args[1] # <<>>
          => result.val \in LookupOrderLines(_build_line_map(onix), result.args[1], TRUE)

\* ---- C25 ---------------------------------------------------------------------
\* C25: the finding made for a failed assertion or a successful report has the
\* line that extract_line_from_location gives for the reported location, and
\* the reported test expression and location.
ReportLineResolved ==
    result.op = "report_finding" =>
        /\ result.val.line = extract_line_from_location(onix, result.args[1].location)
        /\ result.val.test = result.args[1].test
        /\ result.val.location = result.args[1].location

\* ---- C27 ---------------------------------------------------------------------
\* the truthiness contract: a node list with a node, a string with a character
\* (a blank counts), a number other than zero, a boolean that is true
ContractTrue(value) ==
    CASE value.type = "list" -> value.len > 0
      [] value.type = "str" -> Len(value.text) >= 1
      [] value.type = "number" -> value.num # 0
      [] value.type = "bool" -> value.b

\* C27: _truthy holds of a node list exactly when it has a node, of a string
\* exactly when it has a character (a blank counts), of a number exactly when
\* it is not zero, and of a boolean exactly when it is true.
TruthinessContract ==
    result.op = "_truthy" => result.val = ContractTrue(result.args[1])

\* ---- C26 ---------------------------------------------------------------------
\* the context nodes of a rule whose assert result is false
FalseAsserts(rule) == {k \in 1..Len(rule.asserts) : ~ContractTrue(rule.asserts[k])}

\* C26: a run of evaluate on a parsed document with a loaded rule list has one
\* CUSTOM_RULE finding per context node whose assert is false, for each rule
\* whose expressions evaluate (none for a rule without context node), and one
\* success marker exactly when there is no other finding and a rule was
\* loaded.
EvaluationOutput ==
    (Returned("evaluate") /\ rulesFile.exists /\ rulesFile.loads /\ onix.wellformed) =>
        /\ \A i \in 1..Len(rulesFile.rules) :
              ~RuleRaises(rulesFile.rules[i]) =>
                  Len(WithDomain(FindingsOf(result.val, i), {"CUSTOM_RULE"}))
                      = Cardinality(FalseAsserts(rulesFile.rules[i]))
        /\ LET markers == WithDomain(result.val, {"VALIDATION_SUCCESS"})
           IN Len(markers) = IF Len(result.val) = Len(markers) /\ rulesFile.rules # <<>>
                             THEN 1 ELSE 0

\* ---- C28 ---------------------------------------------------------------------
\* C28: in a result of calculate_retailer_score that scored a product, every
\* critical field of the profile whose predicate is false is in
\* critical_missing, every recommended field whose predicate is false is in
\* recommended_missing, no field whose predicate is true is in either list,
\* each list holds fields of its own profile set only, and the lists are
\* disjoint.
MissingBuckets ==
    (/\ Returned("calculate_retailer_score")
     /\ result.args[1] \in DOMAIN RETAILER_PROFILES
     /\ onix.wellformed /\ onix.products # <<>>
     /\ "error" \notin DOMAIN result.val) =>
        LET profile == RETAILER_PROFILES[result.args[1]]
            product == onix.products[1]
            critical_missing == Range(result.val.critical_missing)
            recommended_missing == Range(result.val.recommended_missing)
        IN /\ \A f \in Range(profile.critical_fields) :
                 ~PredicateTrue(product, f) => f \in critical_missing
           /\ \A f \in Range(profile.recommended_fields) :
                 ~PredicateTrue(product, f) => f \in recommended_missing
           /\ \A f \in critical_missing \cup recommended_missing : ~PredicateTrue(product, f)
           /\ critical_missing \subseteq Range(profile.critical_fields)
           /\ recommended_missing \subseteq Range(profile.recommended_fields)
           /\ critical_missing \cap recommended_missing = {}

\* ---- C22 ---------------------------------------------------------------------
CountStatus(store, status) == Cardinality({i \in DOMAIN store : store[i].status = status})

\* C22: the counts of get_stats partition the store: total_validations is the
\* number of stored states, completed_validations, failed_validations and
\* pending_validations are the numbers of states with that status, and the
\* total is the sum of the three.
StatsPartition ==
    result.op = "get_stats" =>
        /\ result.val.total_validations = Cardinality(DOMAIN states)
        /\ result.val.completed_validations = CountStatus(states, "completed")
        /\ result.val.failed_validations = CountStatus(states, "failed")
        /\ result.val.pending_validations = CountStatus(states, "pending")
        /\ result.val.total_validations
              = result.val.completed_validations + result.val.failed_validations
                + result.val.pending_validations

\* ---- C23 ---------------------------------------------------------------------
\* the store that differs from store in one field of the state of one id
WithField(store, validation_id, field, value) ==
    [i \in DOMAIN store |-> IF i = validation_id THEN [store[i] EXCEPT ![field] = value] ELSE store[i]]

\* what a call of a write method must have done, the call being result' and
\* the stores before and after it states and states'
WriteEffect ==
    LET op == result'.op
        validation_id == result'.args[1]
        stored == validation_id \in DOMAIN states
    IN CASE op = "create_validation" ->
              /\ DOMAIN states' = DOMAIN states \cup {validation_id}
              /\ states'[validation_id].status = "pending"
              /\ states'[validation_id].id = validation_id
              /\ \A i \in DOMAIN states \ {validation_id} : states'[i] = states[i]
         [] op = "update_status" ->
              IF stored
              THEN /\ result'.val = TRUE
                   /\ states' = IF result'.args[2] \in {"completed", "failed"}
                                THEN WithField(WithField(states, validation_id, "status", result'.args[2]),
                                               validation_id, "completed_at", Some(clock'))
                                ELSE WithField(states, validation_id, "status", result'.args[2])
              ELSE result'.val = FALSE /\ states' = states
         [] op \in {"set_results", "set_error", "set_pipeline_summary"} ->
              IF stored
              THEN /\ result'.val = TRUE
                   /\ states' = WithField(states, validation_id,
                                          CASE op = "set_results" -> "results"
                                            [] op = "set_error" -> "error"
                                            [] op = "set_pipeline_summary" -> "pipeline_summary",
                                          Some(result'.args[2]))
              ELSE result'.val = FALSE /\ states' = states
         [] op = "get_validation" ->
              /\ states' = states
              /\ result'.val = IF stored THEN Some(states[validation_id]) ELSE None
         [] OTHER -> states' = states

\* C23: reads reflect writes.  create_validation stores a pending state;
\* update_status, set_results, set_error and set_pipeline_summary on a stored
\* id return True and change the named field only (update_status stamps
\* completed_at exactly for completed and failed); on an id that is not stored
\* they return False and leave the store as it was; get_validation returns
\* what is stored.
ReadsReflectWrites == [][WriteEffect]_clock

\* C23 witness: a validation was created, given results, completed (which
\* stamped completed_at), and a write to an id that is not stored returned
\* False
ReadsReflectWritesWitness ==
    /\ result.op = "set_error" /\ result.val = FALSE
    /\ \E i \in DOMAIN states :
          /\ states[i].status = "completed"
          /\ states[i].completed_at # None
          /\ states[i].results = Some("results")

\* ---- C30 ---------------------------------------------------------------------
\* C30: once the delete endpoint has answered "Validation deleted
\* successfully" for an id, no validation is stored under that id, so the id is
\* not found by a later get, list or statistics.
DeleteRemoves ==
    (result.op = "delete_validation" /\ result.exc = "none") => result.args[1] \notin DOMAIN states

\* ---- C29 ---------------------------------------------------------------------
StatusEdges == {<<"pending", "processing">>, <<"processing", "completed">>,
                <<"processing", "failed">>}

Terminal(validation_id) ==
    validation_id \in DOMAIN states /\ states[validation_id].status \in {"completed", "failed"}

\* a step changes the status of a stored validation along an edge only
LifecycleStep ==
    \A i \in DOMAIN states :
        states'[i].status # states[i].status => <<states[i].status, states'[i].status>> \in StatusEdges

\* results are on validations that completed, errors on validations that
\* failed, once the task has ended
TerminalFields ==
    \A i \in DOMAIN tasks :
        tasks[i].pc = "done" =>
            /\ states[i].results # None => states[i].status = "completed"
            /\ states[i].error # None => states[i].status = "failed"

\* C29: the status of a submitted validation moves only along pending ->
\* processing -> completed or pending -> processing -> failed, a terminal
\* status is never left, results are set only on validations that end
\* completed and error only on those that end failed, and every queued
\* validation reaches a terminal status.
ValidationLifecycle ==
    /\ [][LifecycleStep]_clock
    /\ []TerminalFields
    /\ \A i \in ValidationIds : (i \in DOMAIN tasks) ~> Terminal(i)

====
